---- MODULE Spec2Model ----
(***************************************************************************)
(* Model of presenterm's animated rendering core:                          *)
(*   src/code/banner.rs     RainbowBannerAnimation, its pollable, and the  *)
(*                          multi-banner orchestrator (MultiBannerLine,    *)
(*                          MultiBannerPollable, MultiBannerMutator)       *)
(*   src/code/asciinema.rs  AsciinemaPlayer and its playback pollable,     *)
(*                          AsciinemaRecording (from_cast, duration,       *)
(*                          get_frame_at) and the TerminalScreen emulator  *)
(*                                                                         *)
(* Time.  Instant::now() is an integer number of milliseconds (`now`).     *)
(* The banner poll compares `elapsed >= cycle` on Durations and takes      *)
(* `as_millis()`; as the cycle is a whole number of milliseconds both only *)
(* depend on the whole milliseconds elapsed.  Playback times (event        *)
(* timestamps, current_time, duration()) are counted in tenths of a        *)
(* millisecond and the speed in tenths, so that `elapsed * speed` is the   *)
(* exact product for speeds such as 0.1; f64 rounding is not modelled.     *)
(*                                                                         *)
(* hue_offset is kept in whole degrees.  Of the f32 arithmetic of the      *)
(* progress the conversions `as_millis() as f32` are modelled (as_f32);    *)
(* the rounding of the quotient and of `progress * 360.0` is not: the      *)
(* quotient of two f32 a < b below 2^25 is at most 1 - 2^-24, and 360      *)
(* times that is still below 360.0 after rounding.                         *)
(*                                                                         *)
(* Option<T> is a set with at most one element: {} is None.                *)
(*                                                                         *)
(* A String is a sequence of chars, a char is named by a TLA+ string, and  *)
(* String::len() is the sum of the chars' UTF-8 lengths.  A cast file is   *)
(* the sequence of its lines; a line is a record of what serde_json sees   *)
(* in it.  Cast timestamps are whole tenths of a second.                   *)
(***************************************************************************)
EXTENDS Integers, Sequences, FiniteSets, TLC

VARIABLES
    component,       \* which render-async element the scheduler drives:
                     \* "banner", "player" or "multi_banner"
    now,             \* the monotonic clock, in ms
    animations,      \* MultiBannerLine.animations: index -> configuration
    anim_state,      \* index -> AnimationState (the Arc<Mutex<..>> of each)
    context,         \* MultiBannerContext: [current, total], and whether its
                     \* Mutex is poisoned
    player,          \* AsciinemaPlayer configuration and recording
    playback_state,  \* PlaybackState
    last,            \* history: the last call and what it returned
    dones,           \* history: how many polls of entry i returned Done
    playback_dones,  \* history: how many playback polls returned Done
    selected_ms,     \* history: ms that passed while entry i was armed and selected
    content,         \* the cast file given to from_cast, as its lines
    recording,       \* what from_cast returned, once it was called
    query,           \* the last query of the recording and what it returned
    screen,          \* a TerminalScreen
    font,            \* the font files, the whitelist map and the last generator
    cell,            \* the last cell a style rendered, and what it returned
    rendered,        \* history: the first cell rendered, and how many since;
                     \* the frame render_with_offset is building
    threads          \* the run-state mutex and the calls that are inside it

vars == <<component, now, animations, anim_state, context, player,
          playback_state, last, dones, playback_dones, selected_ms,
          content, recording, query, screen, font, cell, rendered, threads>>

\* the state of the animations, the playback and their scheduler
scheduler_vars == <<component, now, animations, anim_state, context, player,
                    playback_state, dones, playback_dones, selected_ms>>

\* the state of cast parsing and of the terminal replay
replay_vars == <<content, recording, query, screen>>

\* font loading, the per-cell styles and the mutex of the run state
drawing_vars == <<font, cell, rendered, threads>>

(* ------------------------------ bounds -------------------------------- *)

\* the clock of a single banner or player stops here
MaxTime == 4
\* the clock of the orchestrator stops here
MaxMultiTime == 2
\* the orchestrator holds at most this many banners
MaxTotal == 2
\* a recording holds at most this many retained events
MaxEvents == 2
\* the clock of an instance that is polled until it is done stops here
LiveMaxTime == 15


\* duration_millis values a banner is configured with
DurationMillis == {0, 2, 3}
\* duration_millis values the banners of a multi-banner are configured with
MultiDurationMillis == {0, 2}
\* speed values a player is configured with, in tenths
SpeedInputs == {0 - 10, 0, 10, 20}
\* event timestamps, in tenths of a millisecond
EventTimes == {0, 3, 15}

(* --------------------------- program constants ------------------------ *)

\* `progress * 360.0`
FullCircle == 360
\* `duration_millis.max(1)`
MinDurationMillis == 1
\* `speed.max(0.1)`, in tenths
MinSpeedTenths == 1

Max(a, b) == IF a >= b THEN a ELSE b
Min(a, b) == IF a <= b THEN a ELSE b

\* Option::unwrap
unwrap(opt) == CHOOSE x \in opt : TRUE

\* a saturating history counter
Bump(n) == Min(n + 1, 2)

(* ------------------------------ banner -------------------------------- *)

\* RainbowBannerAnimation::new with `.max(1)` left out
RainbowBannerAnimation_new_unfloored(loop_animation, duration_millis) ==
    [loop_animation |-> loop_animation, duration |-> duration_millis]

\* RainbowBannerAnimation::new: the fields the pollable reads
RainbowBannerAnimation_new(loop_animation, duration_millis) ==
    [loop_animation |-> loop_animation,
     duration |-> Max(duration_millis, MinDurationMillis)]

\* the AnimationState RainbowBannerAnimation::new builds
AnimationState_new ==
    [hue_offset |-> 0, start_time |-> {}, completed |-> FALSE]

\* every whole number up to 2^24 is an f32; above it, up to 2^25, only the
\* even ones are
F32_EXACT == 16777216

\* `n as f32` of a number of milliseconds below 2^25: the nearest f32, and of
\* two equally near the one with the even mantissa
as_f32(n) ==
    IF n <= F32_EXACT \/ n % 2 = 0
        THEN n
        ELSE IF (n - 1) % 4 = 0 THEN n - 1 ELSE n + 1

\* `a / b * 360.0` in whole degrees, rounded down; the product 360 * a is
\* taken in two parts to stay within the integers of the checker
degrees(a, b) ==
    LET q == (8 * (a % b)) \div b
        r == (8 * (a % b)) % b
    IN  FullCircle * (a \div b) + 45 * q + (45 * r) \div b

\* hue_at with the looping branch's `%` left out
hue_at_without_modulo(elapsed, cycle, loop_animation) ==
    degrees(as_f32(elapsed), as_f32(cycle))

\* the hue offset a poll stores at `elapsed` ms: progress * 360.0
hue_at(elapsed, cycle, loop_animation) ==
    IF loop_animation
        THEN degrees(as_f32(elapsed % cycle), as_f32(cycle))
        ELSE Min(degrees(as_f32(elapsed), as_f32(cycle)), FullCircle)

\* the first poll: arms the start time and returns Modified
banner_first_poll(st, t) ==
    [state |-> [st EXCEPT !.start_time = {t}], ret |-> "Modified"]

\* banner_end_of_cycle with the `completed` test left out
banner_end_of_cycle_always_done(st) ==
    [state |-> [st EXCEPT !.completed = TRUE], ret |-> "Done"]

\* a poll at or after the cycle's end of an animation that does not loop
banner_end_of_cycle(st) ==
    IF ~st.completed
        THEN [state |-> [st EXCEPT !.completed = TRUE], ret |-> "Done"]
        ELSE [state |-> st, ret |-> "Unmodified"]

\* banner_cycle_over with `>` in the place of `>=`
banner_cycle_over_late(elapsed, anim) ==
    elapsed > anim.duration /\ ~anim.loop_animation

\* banner_cycle_over with the `!self.loop_animation` test left out
banner_cycle_over_ignoring_loop(elapsed, anim) ==
    elapsed >= anim.duration

\* whether a poll at `elapsed` ms takes the end-of-cycle branch
banner_cycle_over(elapsed, anim) ==
    elapsed >= anim.duration /\ ~anim.loop_animation

\* RainbowAnimationPollable::poll on run state st at clock reading t:
\* the new run state and the PollableState returned
RainbowAnimationPollable_poll(st, anim, t) ==
    IF st.start_time = {}
        THEN banner_first_poll(st, t)
        ELSE LET elapsed == t - unwrap(st.start_time)
                 cycle == anim.duration
             IN  IF banner_cycle_over(elapsed, anim)
                     THEN banner_end_of_cycle(st)
                     ELSE [state |-> [st EXCEPT !.hue_offset =
                                         hue_at(elapsed, cycle, anim.loop_animation)],
                           ret |-> "Modified"]

(* ------------------------- history of calls --------------------------- *)

\* the record of a call: its name, the entry it acted on, what it returned
\* and, for a render, the frame it produced
Call(op, entry, ret, frame) ==
    [op |-> op, entry |-> entry, ret |-> ret, frame |-> frame]

NoCall == Call("new", 0, "unit", <<>>)

Entries == DOMAIN animations

(* --------------------------- single banner ---------------------------- *)

\* RainbowBannerAnimation::render_with_offset of entry i: the frame is a
\* function of the entry's own lines and style and of the hue offset given
render_with_offset(i, hue_offset) == <<i, hue_offset>>

\* the scheduler polls entry i's RainbowAnimationPollable
PollEntry(i) ==
    LET r == RainbowAnimationPollable_poll(anim_state[i], animations[i], now)
    IN  /\ anim_state' = [anim_state EXCEPT ![i] = r.state]
        /\ last' = Call("poll", i, r.ret, <<>>)
        /\ dones' = [dones EXCEPT ![i] = IF r.ret = "Done" THEN Bump(@) ELSE @]

\* RainbowBannerAnimation::as_render_operations of entry i
RenderEntry(i) ==
    last' = Call("render", i, "ops",
                 render_with_offset(i, anim_state[i].hue_offset))

\* the scheduler polls the pollable of a banner that stands alone
BannerPoll ==
    /\ UNCHANGED <<replay_vars, drawing_vars>>
    /\ component = "banner"
    /\ PollEntry(0)
    /\ UNCHANGED <<component, now, animations, context, player, playback_state,
                   playback_dones, selected_ms>>

\* the renderer draws a banner that stands alone
BannerRender ==
    /\ UNCHANGED <<replay_vars, drawing_vars>>
    /\ component = "banner"
    /\ RenderEntry(0)
    /\ UNCHANGED <<component, now, animations, anim_state, context, player,
                   playback_state, dones, playback_dones, selected_ms>>

(* --------------------------- orchestrator ----------------------------- *)

\* poll_target that always takes the first entry
poll_target_first(current) == 0

\* the entry MultiBannerPollable::poll delegates to: pollables.get_mut(current)
poll_target(current) == current

\* MultiBannerPollable::poll: copies context.current, then polls that entry only
MultiBannerPollable_poll ==
    /\ UNCHANGED <<replay_vars, drawing_vars>>
    /\ component = "multi_banner"
    /\ LET current == poll_target(context.current)
       IN  IF context.poisoned
               THEN /\ last' = Call("poll", current, "panic", <<>>)
                    /\ UNCHANGED <<anim_state, dones>>
           ELSE IF current \in Entries
               THEN PollEntry(current)
               ELSE /\ last' = Call("poll", current, "Unmodified", <<>>)
                    /\ UNCHANGED <<anim_state, dones>>
    /\ UNCHANGED <<component, now, animations, context, player, playback_state,
                   playback_dones, selected_ms>>

\* the entry MultiBannerLine::as_render_operations delegates to:
\* animations.get(current)
render_target(current) == current

\* MultiBannerLine::as_render_operations: copies context.current, then renders
\* that entry only, or nothing
MultiBannerLine_as_render_operations ==
    /\ UNCHANGED <<replay_vars, drawing_vars>>
    /\ component = "multi_banner"
    /\ LET current == render_target(context.current)
       IN  IF context.poisoned
               THEN last' = Call("render", current, "panic", <<>>)
           ELSE IF current \in Entries
               THEN RenderEntry(current)
               ELSE last' = Call("render", current, "ops", <<>>)
    /\ UNCHANGED <<component, now, animations, anim_state, context, player,
                   playback_state, dones, playback_dones, selected_ms>>

\* usize::MAX, as far as the integers of the checker go
USIZE_MAX == 2147483647

\* `a - b` on usize.  When b > a the subtraction overflows: a build with
\* overflow checks (debug) panics there, a build without (release) wraps
usize_sub(a, b) ==
    IF a >= b
        THEN {[panic |-> FALSE, value |-> a - b]}
        ELSE {[panic |-> TRUE, value |-> 0],
              [panic |-> FALSE, value |-> USIZE_MAX - (b - a - 1)]}

\* next_index that wraps around to the first entry at the last index
next_index_wrapping(ctx, last_index) ==
    IF ctx.current >= last_index.value
        THEN [current |-> 0, ret |-> "true"]
        ELSE [current |-> ctx.current + 1, ret |-> "true"]

\* next_index with the test for the last index left out
next_index_unguarded(ctx, last_index) ==
    [current |-> ctx.current + 1, ret |-> "true"]

\* mutate_next: the index it leaves and what it returns, `last_index` being
\* what `context.total - 1` came to
next_index(ctx, last_index) ==
    IF last_index.panic
        THEN [current |-> ctx.current, ret |-> "panic"]
    ELSE IF ctx.current >= last_index.value
        THEN [current |-> ctx.current, ret |-> "false"]
        ELSE [current |-> ctx.current + 1, ret |-> "true"]

\* mutate_previous: the index it leaves and what it returns
previous_index(ctx) ==
    IF ctx.current = 0
        THEN [current |-> ctx.current, ret |-> "false"]
        ELSE [current |-> ctx.current - 1, ret |-> "true"]

\* reset_mutations: the index it leaves
reset_index(ctx) == [current |-> 0, ret |-> "unit"]

\* apply_all_mutations: the index it leaves
apply_all_index(ctx, last_index) ==
    IF last_index.panic
        THEN [current |-> ctx.current, ret |-> "panic"]
        ELSE [current |-> last_index.value, ret |-> "unit"]

\* the indices the model follows: those near 0 and those near usize::MAX
InReach(current) ==
    current <= MaxTotal \/ current >= USIZE_MAX - MaxTotal

\* a call of the navigation component on the shared context: it locks the
\* context, which panics if an earlier call panicked with the lock held
Navigate(op, r) ==
    /\ UNCHANGED <<replay_vars, drawing_vars>>
    /\ component = "multi_banner"
    /\ InReach(r.current)
    /\ IF context.poisoned
           THEN /\ last' = Call(op, 0, "panic", <<>>)
                /\ UNCHANGED context
           ELSE /\ last' = Call(op, 0, r.ret, <<>>)
                /\ context' = [context EXCEPT !.current = r.current,
                                              !.poisoned = (r.ret = "panic")]
    /\ UNCHANGED <<component, now, animations, anim_state, player, playback_state,
                   dones, playback_dones, selected_ms>>

mutate_next ==
    \E last_index \in usize_sub(context.total, 1) :
        Navigate("mutate_next", next_index(context, last_index))

mutate_previous ==
    Navigate("mutate_previous", previous_index(context))

reset_mutations ==
    Navigate("reset_mutations", reset_index(context))

apply_all_mutations ==
    \E last_index \in usize_sub(context.total, 1) :
        Navigate("apply_all_mutations", apply_all_index(context, last_index))

(* ------------------------------ strings ------------------------------- *)

\* chars whose UTF-8 encoding takes two bytes (U+00E9 is e with an acute)
TwoByteChars == {"U+00E9"}

\* char::len_utf8
len_utf8(c) == IF c \in TwoByteChars THEN 2 ELSE 1

RECURSIVE len(_)
\* String::len: the length in bytes
len(string) ==
    IF string = <<>> THEN 0 ELSE len_utf8(Head(string)) + len(Tail(string))

\* the chars str::trim strips
Whitespace == {" "}

RECURSIVE trim_start(_)
trim_start(string) ==
    IF string # <<>> /\ Head(string) \in Whitespace
        THEN trim_start(Tail(string))
        ELSE string

RECURSIVE trim_end(_)
trim_end(string) ==
    IF string # <<>> /\ string[Len(string)] \in Whitespace
        THEN trim_end(SubSeq(string, 1, Len(string) - 1))
        ELSE string

\* str::trim
trim(string) == trim_end(trim_start(string))

\* Option::unwrap_or
unwrap_or(opt, default) == IF opt = {} THEN default ELSE unwrap(opt)

(* ----------------------------- cast files ----------------------------- *)

\* a cast file holds at most this many lines after its first
MaxLines == 3

\* `header.version != 2`
SupportedVersion == 2
\* `header.width.unwrap_or(80)`
DefaultWidth == 80
\* `header.height.unwrap_or(24)`
DefaultHeight == 24

\* the value of a JSON object's field as serde_json meets it
Integer(n) == [json |-> "integer", value |-> n]
Absent == [json |-> "absent", value |-> 0]

\* a line that is a JSON object with these fields, such as a cast header
HeaderLine(version, width, height) ==
    [json |-> "object", version |-> version, width |-> width, height |-> height]

\* a line that is a JSON array [number, string, string], a cast event
EventLine(time, event_type, data) ==
    [json |-> "array", time |-> time, event_type |-> event_type, data |-> data]

\* a line that is no JSON value: whitespace only, or some other text
TextLine(text) == [json |-> "text", text |-> text]

\* `version` fields: 1, 2, 3, the integer -1 that is no u32, and none
VersionTokens == {Integer(1), Integer(2), Integer(3), Integer(0 - 1), Absent}
\* `width` and `height` fields: both absent, or 3 columns and 2 rows
Dimensions == {<<Absent, Absent>>, <<Integer(3), Integer(2)>>}
\* event timestamps, in tenths of a second
CastTimes == {0, 10}
\* event payloads
Payloads == {<<"H", "i">>, <<"U+00E9">>}
\* the timestamps a recording is queried at, in tenths of a second
Timestamps == {0, 5, 10}

\* headers of version 2 with and without dimensions, and headers of the
\* other versions
HeaderLines ==
    {HeaderLine(Integer(SupportedVersion), d[1], d[2]) : d \in Dimensions}
        \cup {HeaderLine(v, Absent, Absent) : v \in VersionTokens}

\* output events, and an input event
EventLines ==
    {EventLine(t, "o", d) : t \in CastTimes, d \in Payloads}
        \cup {EventLine(10, "i", <<"H", "i">>)}

\* what a file's first line can be: a header, an empty line, other text, or
\* an event when the header is missing
FirstLines ==
    HeaderLines \cup
        {TextLine(<<>>), TextLine(<<"x">>), EventLine(0, "o", <<"H", "i">>)}

\* what a later line can be: an event, an empty or whitespace-only line,
\* other text, or a JSON object
RestLines ==
    EventLines \cup
        {TextLine(<<>>), TextLine(<<" ">>), TextLine(<<"x">>),
         HeaderLine(Integer(SupportedVersion), Absent, Absent)}

\* `content.lines()` of the files from_cast is given
CastFiles ==
    {<<>>} \cup
        {<<first>> \o rest :
             first \in FirstLines,
             rest \in UNION {[1..n -> RestLines] : n \in 0..MaxLines}}

\* a serde_json::Error: its category and the position it displays, which is
\* a position in the one line from_str was given ("... at line 1 column c")
SerdeError(category) == [category |-> category, line |-> 1]

\* the error serde_json::from_str gives on a line that is not JSON
syntax_error(line) ==
    IF trim(line.text) = <<>> THEN SerdeError("eof") ELSE SerdeError("syntax")

\* a field deserializes as u32 (TLC's integers all lie below 2^32)
IsU32(token) == token.json = "integer" /\ token.value >= 0

\* a field deserializes as Option<u32> with #[serde(default)]
IsOptionU32(token) == token.json = "absent" \/ IsU32(token)

\* the Option<u32> a field deserializes to
OptionU32(token) == IF token.json = "absent" THEN {} ELSE {token.value}

\* serde_json::from_str::<CastHeader>: an object whose `version` is a u32;
\* an array [number, string, string] fails on its second element, which is
\* no Option<u32>
parse_header(line) ==
    IF line.json = "text"
        THEN [ok |-> FALSE, error |-> syntax_error(line)]
    ELSE IF line.json = "object" /\ IsU32(line.version)
                /\ IsOptionU32(line.width) /\ IsOptionU32(line.height)
        THEN [ok |-> TRUE,
              value |-> [version |-> line.version.value,
                         width |-> OptionU32(line.width),
                         height |-> OptionU32(line.height)]]
    ELSE [ok |-> FALSE, error |-> SerdeError("data")]

\* serde_json::from_str::<CastEvent>: an array [number, string, string];
\* an object with none of the fields "0", "1", "2" fails on a missing field
parse_event(line) ==
    IF line.json = "text"
        THEN [ok |-> FALSE, error |-> syntax_error(line)]
    ELSE IF line.json = "array"
        THEN [ok |-> TRUE,
              value |-> [time |-> line.time,
                         event_type |-> line.event_type,
                         data |-> line.data]]
    ELSE [ok |-> FALSE, error |-> SerdeError("data")]

\* the String of an AsciinemaError: the format string, the number formatted
\* into it if any, and the serde_json error formatted into it if any
Message(format, number, cause) ==
    [format |-> format, number |-> number, cause |-> cause]

ParseError(message) == [variant |-> "ParseError", message |-> message]
InvalidFormat(message) == [variant |-> "InvalidFormat", message |-> message]

\* `line.trim().is_empty()`
is_blank(line) == line.json = "text" /\ trim(line.text) = <<>>

\* version_supported with every version accepted
version_supported_always(version) == TRUE

\* the negation of `header.version != 2`
version_supported(version) == version = SupportedVersion

\* retained with every event type kept
retained_whatever_type(event) == TRUE

\* `event.event_type == "o"`
retained(event) == event.event_type = "o"

RECURSIVE parse_events(_, _, _)
\* the loop `for (idx, line) in lines.enumerate()` from index idx on, with
\* `events` collected so far
parse_events(lines, idx, events) ==
    IF lines = <<>>
        THEN [ok |-> TRUE, value |-> events]
    ELSE IF is_blank(Head(lines))
        THEN parse_events(Tail(lines), idx + 1, events)
    ELSE LET event == parse_event(Head(lines))
         IN  IF ~event.ok
                 THEN [ok |-> FALSE,
                       error |-> ParseError(Message("line {}: {}", {idx + 2},
                                                    {event.error}))]
                 ELSE parse_events(Tail(lines), idx + 1,
                                   IF retained(event.value)
                                       THEN Append(events, event.value)
                                       ELSE events)

\* AsciinemaRecording::from_cast on the lines of `content`
from_cast(lines) ==
    IF lines = <<>>
        THEN [ok |-> FALSE,
              error |-> InvalidFormat(Message("empty cast file", {}, {}))]
    ELSE LET header == parse_header(Head(lines))
         IN  IF ~header.ok
                 THEN [ok |-> FALSE,
                       error |-> ParseError(Message("invalid header: {}", {},
                                                    {header.error}))]
             ELSE IF ~version_supported(header.value.version)
                 THEN [ok |-> FALSE,
                       error |-> InvalidFormat(
                                     Message("unsupported cast version: {}",
                                             {header.value.version}, {}))]
             ELSE LET events == parse_events(Tail(lines), 0, <<>>)
                  IN  IF ~events.ok
                          THEN events
                          ELSE [ok |-> TRUE,
                                value |->
                                    [events |-> events.value,
                                     width |-> unwrap_or(header.value.width,
                                                         DefaultWidth),
                                     height |-> unwrap_or(header.value.height,
                                                          DefaultHeight)]]

\* duration with the first retained event's time returned
duration_of_first(events) ==
    IF Len(events) = 0 THEN 0 ELSE events[1].time

RECURSIVE get_frame_at_without_break(_, _)
\* get_frame_at with `else { break; }` left out
get_frame_at_without_break(events, timestamp) ==
    IF events = <<>>
        THEN <<>>
    ELSE IF Head(events).time <= timestamp
        THEN Head(events).data \o get_frame_at_without_break(Tail(events), timestamp)
    ELSE get_frame_at_without_break(Tail(events), timestamp)

RECURSIVE get_frame_at(_, _)
\* AsciinemaRecording::get_frame_at: the loop pushes the data of each event
\* until it meets one that is later than `timestamp`, and breaks there
get_frame_at(events, timestamp) ==
    IF events = <<>>
        THEN <<>>
    ELSE IF Head(events).time <= timestamp
        THEN Head(events).data \o get_frame_at(Tail(events), timestamp)
    ELSE <<>>

(* ------------------------------ playback ------------------------------ *)

\* the event lists a recording can hold
Recordings ==
    UNION {[1..n -> [time : EventTimes, data : {"x"}]] : n \in 0..MaxEvents}

\* AsciinemaRecording::duration
duration(events) ==
    IF Len(events) = 0 THEN 0 ELSE events[Len(events)].time

\* AsciinemaPlayer::new with `.max(0.1)` left out
AsciinemaPlayer_new_unfloored(events, loop_playback, speed) ==
    [events |-> events, loop_playback |-> loop_playback, speed |-> speed]

\* AsciinemaPlayer::new: the fields the pollable reads
AsciinemaPlayer_new(events, loop_playback, speed) ==
    [events |-> events,
     loop_playback |-> loop_playback,
     speed |-> Max(speed, MinSpeedTenths)]

\* the PlaybackState AsciinemaPlayer::new builds
PlaybackState_new ==
    [start_time |-> {}, current_time |-> 0, completed |-> FALSE]

\* `elapsed * speed`: ms times tenths, so in tenths of a ms, the unit of the
\* recording's timestamps
playback_time_at(elapsed, speed) == elapsed * speed

\* the first poll: arms the start time, zeroes the time, returns Modified
playback_first_poll(st, t) ==
    [state |-> [st EXCEPT !.start_time = {t}, !.current_time = 0],
     ret |-> "Modified"]

\* a poll at or after the recording's end of a looping playback: start over
playback_restart(st, t) ==
    [state |-> [st EXCEPT !.start_time = {t}, !.current_time = 0],
     ret |-> "Modified"]

\* playback_complete with `state.completed = true` left out
playback_complete_unmarked(st, dur) ==
    IF ~st.completed
        THEN [state |-> [st EXCEPT !.current_time = dur], ret |-> "Done"]
        ELSE [state |-> st, ret |-> "Unmodified"]

\* a poll at or after the recording's end of a playback that does not loop:
\* freeze on the last frame
playback_complete(st, dur) ==
    IF ~st.completed
        THEN [state |-> [st EXCEPT !.current_time = dur, !.completed = TRUE],
              ret |-> "Done"]
        ELSE [state |-> st, ret |-> "Unmodified"]

\* the poll of a playback whose start time is armed
playback_armed_poll(st, p, t) ==
    LET elapsed == t - unwrap(st.start_time)
        playback_time == playback_time_at(elapsed, p.speed)
        dur == duration(p.events)
    IN  IF playback_time >= dur
            THEN IF p.loop_playback
                     THEN playback_restart(st, t)
                     ELSE playback_complete(st, dur)
            ELSE [state |-> [st EXCEPT !.current_time = playback_time],
                  ret |-> "Modified"]

\* AsciinemaPlaybackPollable::poll with the first poll's early return left out
AsciinemaPlaybackPollable_poll_falling_through(st, p, t) ==
    IF st.start_time = {}
        THEN playback_armed_poll(playback_first_poll(st, t).state, p, t)
        ELSE playback_armed_poll(st, p, t)

\* AsciinemaPlaybackPollable::poll on run state st at clock reading t:
\* the new run state and the PollableState returned
AsciinemaPlaybackPollable_poll(st, p, t) ==
    IF st.start_time = {}
        THEN playback_first_poll(st, t)
        ELSE playback_armed_poll(st, p, t)

\* AsciinemaPlayer::render_frame: the frame is a function of the recording
\* and of the timestamp given
render_frame(timestamp) == <<0, timestamp>>

\* the scheduler polls the player's pollable
PlaybackPoll ==
    /\ UNCHANGED <<replay_vars, drawing_vars>>
    /\ component = "player"
    /\ LET r == AsciinemaPlaybackPollable_poll(playback_state, player, now)
       IN  /\ playback_state' = r.state
           /\ last' = Call("poll", 0, r.ret, <<>>)
           /\ playback_dones' = IF r.ret = "Done" THEN Bump(playback_dones)
                                                  ELSE playback_dones
    /\ UNCHANGED <<component, now, animations, anim_state, context, player,
                   dones, selected_ms>>

\* AsciinemaPlayer::as_render_operations: render_frame(state.current_time)
AsciinemaPlayer_as_render_operations ==
    /\ UNCHANGED <<replay_vars, drawing_vars>>
    /\ component = "player"
    /\ last' = Call("render", 0, "ops", render_frame(playback_state.current_time))
    /\ UNCHANGED <<component, now, animations, anim_state, context, player,
                   playback_state, dones, playback_dones, selected_ms>>

(* ------------------------- terminal emulator -------------------------- *)

\* a screen is at most this many columns wide
MaxWidth == 2

\* the heights a screen is built with
Heights == {1, 2}
\* the chars the parser prints
Printable == {"a", "U+00E9"}
\* the C0 bytes the parser executes: line feed, carriage return, backspace,
\* and bell and horizontal tab for the others
ControlBytes == {"LF", "CR", "BS", "BEL", "HT"}

\* TerminalScreen::new; lines[r + 1] is the code's lines[r].  Two fields are
\* not the code's: whether the build checks arithmetic for overflow, and
\* whether a subtraction on the screen has overflowed ("panicked" with the
\* checks, "wrapped" without)
TerminalScreen_new(width, height) ==
    [lines |-> [r \in 1..height |-> <<>>],
     cursor |-> <<0, 0>>,
     width |-> width,
     height |-> height,
     overflow_checks |-> FALSE,
     overflow |-> "none"]

\* the screen in a build with or without overflow checks
in_build(s, overflow_checks) == [s EXCEPT !.overflow_checks = overflow_checks]

\* `a - b` on usize in a build with or without overflow checks
usize_sub_in(a, b, overflow_checks) ==
    CHOOSE o \in usize_sub(a, b) : a >= b \/ o.panic = overflow_checks

\* what an overflow in the build of screen s leaves in the history field
overflowed(s) == IF s.overflow_checks THEN "panicked" ELSE "wrapped"

RECURSIVE pad(_, _)
\* `while self.lines[row].len() <= col { self.lines[row].push(' '); }`
pad(line, col) ==
    IF len(line) <= col THEN pad(Append(line, " "), col) ELSE line

\* `if self.lines[row].chars().nth(col).is_some()`: the char at index col is
\* replaced by c, when there is one
replace_nth(line, col, c) ==
    IF col < Len(line) THEN [line EXCEPT ![col + 1] = c] ELSE line

\* advance_column without the clamp at the right edge
advance_column_unclamped(col, last_column) == col + 1

\* `(self.cursor.1 + 1).min(self.width - 1)`, last_column being what
\* `self.width - 1` came to
advance_column(col, last_column) == Min(col + 1, last_column)

\* TerminalScreen::put_char, which Perform::print calls
put_char(s, c) ==
    LET row == s.cursor[1]
        col == s.cursor[2]
        last_column == usize_sub_in(s.width, 1, s.overflow_checks)
    IN  IF row >= s.height
            THEN s
        ELSE IF last_column.panic
            THEN [s EXCEPT
                     !.lines[row + 1] = replace_nth(pad(@, col), col, c),
                     !.overflow = overflowed(s)]
            ELSE [s EXCEPT
                     !.lines[row + 1] = replace_nth(pad(@, col), col, c),
                     !.cursor = <<row, advance_column(col, last_column.value)>>,
                     !.overflow = IF s.width = 0 THEN overflowed(s) ELSE @]

\* line_feed with the cursor wrapping to the top after the last row
line_feed_wrapping(s) ==
    [s EXCEPT !.cursor = <<(s.cursor[1] + 1) % s.height, s.cursor[2]>>]

\* `b'\n'`: `self.cursor.0 = (self.cursor.0 + 1).min(self.height - 1)`
line_feed(s) ==
    LET last_row == usize_sub_in(s.height, 1, s.overflow_checks)
    IN  IF last_row.panic
            THEN [s EXCEPT !.overflow = overflowed(s)]
            ELSE [s EXCEPT
                     !.cursor = <<Min(s.cursor[1] + 1, last_row.value), s.cursor[2]>>,
                     !.overflow = IF s.height = 0 THEN overflowed(s) ELSE @]

\* `b'\r'`: `self.cursor.1 = 0`
carriage_return(s) == [s EXCEPT !.cursor = <<s.cursor[1], 0>>]

\* `b'\x08'`: `if self.cursor.1 > 0 { self.cursor.1 -= 1; }`
backspace(s) ==
    IF s.cursor[2] > 0
        THEN [s EXCEPT !.cursor = <<s.cursor[1], s.cursor[2] - 1>>]
        ELSE s

\* execute_other with a horizontal tab moving the cursor to column 0
execute_other_tabbing(s, byte) ==
    IF byte = "HT" THEN [s EXCEPT !.cursor = <<s.cursor[1], 0>>] ELSE s

\* `_ => {}`
execute_other(s, byte) == s

\* Perform::execute
execute(s, byte) ==
    CASE byte = "LF" -> line_feed(s)
      [] byte = "CR" -> carriage_return(s)
      [] byte = "BS" -> backspace(s)
      [] OTHER -> execute_other(s, byte)

\* Perform::print
print(s, c) == put_char(s, c)

\* the empty bodies of hook, put, unhook, osc_dispatch, csi_dispatch and
\* esc_dispatch
dispatch_ignored(s) == s

\* the call Parser::advance makes for one char of the stream: execute for a
\* C0 byte, print for any other char; none after a panic
perform(s, c) ==
    IF s.overflow = "panicked" THEN s
    ELSE IF c \in ControlBytes THEN execute(s, c)
    ELSE print(s, c)

RECURSIVE advance(_, _)
\* `parser.advance(&mut screen, &bytes)` on a stream without escape sequences
advance(s, stream) ==
    IF stream = <<>> THEN s ELSE advance(perform(s, Head(stream)), Tail(stream))

\* AsciinemaPlayer::render_frame up to `screen.get_lines()`: the screen whose
\* lines the frame shows between its borders
render_frame_screen(rec, timestamp, overflow_checks) ==
    advance(in_build(TerminalScreen_new(rec.width, rec.height), overflow_checks),
            get_frame_at(rec.events, timestamp))

(* --------------------------- replay history --------------------------- *)

\* a call made on the recording or on the screen: its name, the timestamp
\* or 0, the String given or returned, the f64 returned or 0
Replay(op, timestamp, string, time) ==
    [op |-> op, timestamp |-> timestamp, string |-> string, time |-> time]

NoReplay == Replay("none", 0, <<>>, 0)

\* no screen
NoScreen == TerminalScreen_new(0, 0)

(* ----------------------- cast parsing and replay ---------------------- *)

\* the recording from_cast returned
Parsed == unwrap(recording).value

\* from_cast has returned Ok
IsParsed == recording # {} /\ unwrap(recording).ok

\* AsciinemaRecording::from_cast(content)
FromCast ==
    /\ component = "cast"
    /\ recording = {}
    /\ recording' = {from_cast(content)}
    /\ query' = Replay("from_cast", 0, <<>>, 0)
    /\ UNCHANGED <<content, screen, last>>
    /\ UNCHANGED <<scheduler_vars, drawing_vars>>

\* recording.duration()
Duration ==
    /\ component = "cast"
    /\ IsParsed
    /\ query' = Replay("duration", 0, <<>>, duration(Parsed.events))
    /\ UNCHANGED <<content, recording, screen, last>>
    /\ UNCHANGED <<scheduler_vars, drawing_vars>>

\* recording.get_frame_at(timestamp)
GetFrameAt ==
    /\ component = "cast"
    /\ IsParsed
    /\ \E timestamp \in Timestamps :
           query' = Replay("get_frame_at", timestamp,
                           get_frame_at(Parsed.events, timestamp), 0)
    /\ UNCHANGED <<content, recording, screen, last>>
    /\ UNCHANGED <<scheduler_vars, drawing_vars>>

\* render_frame(timestamp) of a player of the recording
RenderFrame ==
    /\ component = "cast"
    /\ IsParsed
    /\ \E timestamp \in Timestamps, overflow_checks \in BOOLEAN :
           /\ query' = Replay("render_frame", timestamp,
                              get_frame_at(Parsed.events, timestamp), 0)
           /\ screen' = render_frame_screen(Parsed, timestamp, overflow_checks)
    /\ UNCHANGED <<content, recording, last>>
    /\ UNCHANGED <<scheduler_vars, drawing_vars>>

(* ------------------------- terminal events ---------------------------- *)

\* the parser's call `op` turns the screen into `s`
Performed(op, string, s) ==
    /\ component = "terminal"
    /\ screen' = s
    /\ query' = Replay(op, 0, string, 0)
    /\ UNCHANGED <<content, recording, last>>
    /\ UNCHANGED <<scheduler_vars, drawing_vars>>

TerminalPrint == \E c \in Printable : Performed("print", <<c>>, print(screen, c))

TerminalExecute ==
    \E byte \in ControlBytes : Performed("execute", <<byte>>, execute(screen, byte))

TerminalCsiDispatch == Performed("csi_dispatch", <<>>, dispatch_ignored(screen))

TerminalEscDispatch == Performed("esc_dispatch", <<>>, dispatch_ignored(screen))

TerminalOscDispatch == Performed("osc_dispatch", <<>>, dispatch_ignored(screen))

\* a device control string: hook, put for each byte, unhook
TerminalHook == Performed("hook", <<>>, dispatch_ignored(screen))

TerminalPut == Performed("put", <<>>, dispatch_ignored(screen))

TerminalUnhook == Performed("unhook", <<>>, dispatch_ignored(screen))

(* ------------------------------- clock -------------------------------- *)

\* one millisecond passes on a clock that stops at `bound`
Advance(bound) ==
    /\ UNCHANGED <<replay_vars, drawing_vars>>
    /\ now < bound
    /\ now' = now + 1
    /\ last' = Call("tick", 0, "unit", <<>>)
    /\ UNCHANGED <<component, animations, anim_state, context, player,
                   playback_state, dones, playback_dones>>

Tick ==
    /\ component # "multi_banner"
    /\ Advance(MaxTime)
    /\ UNCHANGED selected_ms

MultiTick ==
    /\ component = "multi_banner"
    /\ Advance(MaxMultiTime)
    /\ UNCHANGED selected_ms

\* a millisecond passes, and is counted for the selected entry if that
\* entry's clock has been armed
SelectedTick ==
    /\ component = "multi_banner"
    /\ Advance(MaxMultiTime)
    /\ selected_ms' = [i \in Entries |->
                          IF i = context.current /\ anim_state[i].start_time # {}
                              THEN selected_ms[i] + 1
                              ELSE selected_ms[i]]

(* ------------------------------- fonts -------------------------------- *)

\* at most this many .flf files in the scanned font directories
MaxFiles == 2

UpperCase == <<"A", "B", "C", "D", "E", "F", "G", "H", "I", "J", "K", "L", "M",
               "N", "O", "P", "Q", "R", "S", "T", "U", "V", "W", "X", "Y", "Z">>

LowerCase == <<"a", "b", "c", "d", "e", "f", "g", "h", "i", "j", "k", "l", "m",
               "n", "o", "p", "q", "r", "s", "t", "u", "v", "w", "x", "y", "z">>

\* str::to_lowercase, char by char
to_lowercase(name) ==
    [i \in 1..Len(name) |->
        IF \E k \in 1..26 : UpperCase[k] = name[i]
            THEN LowerCase[CHOOSE k \in 1..26 : UpperCase[k] = name[i]]
            ELSE name[i]]

\* the font names of the model
Standard == <<"s", "t", "a", "n", "d", "a", "r", "d">>
StandardCapital == <<"S", "t", "a", "n", "d", "a", "r", "d">>
Slant == <<"s", "l", "a", "n", "t">>
SlantCapital == <<"S", "l", "a", "n", "t">>
Big == <<"b", "i", "g">>
Nonexistent == <<"n", "o", "n", "e", "x", "i", "s", "t", "e", "n", "t", "_",
                 "f", "o", "n", "t", "_", "1", "2", "3", "4", "5">>

FontNames == {Standard, StandardCapital, Slant, SlantCapital, Big, Nonexistent}

\* the stems of the .flf files a font directory may hold
Stems == {Slant, SlantCapital, Big}

\* SAFE_FONTS, cut down to the names of the model ("big" is not one of them)
SAFE_FONTS == {Slant, Standard}

\* what FIGfont::from_file or from_content does when called under catch_unwind
LoadOutcomes == {"font", "error", "panic"}

\* what FIGfont::convert does when called under catch_unwind
ConvertOutcomes == {"figure", "none", "panic"}

\* a font file: its stem, and what loading it and converting "TEST" with it do
FontFiles ==
    {[stem |-> s, from_file |-> l, convert |-> c] :
        s \in Stems,
        l \in {"font", "error"},
        c \in {"figure", "panic"}}

FIGfont(name, origin) == [kind |-> "FIGfont", name |-> name, detail |-> origin]

FontLoadFailed(name, cause) ==
    [kind |-> "FontLoadFailed", name |-> name, detail |-> cause]

ConversionFailed(text) ==
    [kind |-> "ConversionFailed", name |-> text, detail |-> ""]

FontUnavailable(name) ==
    [kind |-> "FontUnavailable", name |-> name, detail |-> ""]

Ok(value) == [ok |-> TRUE, value |-> value]
Err(error) == [ok |-> FALSE, value |-> error]

validate_font_file(file) ==
    /\ file.from_file = "font"
    /\ file.convert = "figure"

\* the maps build_valid_font_map can return: read_dir lists the files in any
\* order, and the first validated file of a lowercased stem keeps the key
build_valid_font_map(files) ==
    LET listed == {f \in files : /\ to_lowercase(f.stem) \in SAFE_FONTS
                                 /\ validate_font_file(f)}
        keys == {to_lowercase(f.stem) : f \in listed}
    IN  {m \in [keys -> listed] : \A k \in keys : to_lowercase(m[k].stem) = k}

get_valid_font_path(name, map) ==
    LET lower == to_lowercase(name)
    IN  IF lower \in DOMAIN map THEN {map[lower]} ELSE {}

\* the three arms of `match result` after catch_unwind
load_result(font_name, font_source, origin, outcome) ==
    CASE outcome = "font" -> Ok(FIGfont(font_source, origin))
      [] outcome = "error" -> Err(FontLoadFailed(font_name, "error"))
      [] OTHER -> Err(FontLoadFailed(font_name, "panic during font loading"))

load_font_falling_back(font_name, map, outcome) ==
    IF \/ to_lowercase(font_name) = Standard
       \/ get_valid_font_path(font_name, map) = {}
        THEN load_result(font_name, Standard, "fonts::STANDARD", outcome)
        ELSE load_result(font_name, unwrap(get_valid_font_path(font_name, map)).stem,
                         "from_file", outcome)

\* BannerGenerator::load_font; `outcome` is what the FIGfont constructor does
load_font(font_name, map, outcome) ==
    IF to_lowercase(font_name) = Standard
        THEN load_result(font_name, Standard, "fonts::STANDARD", outcome)
        ELSE IF get_valid_font_path(font_name, map) # {}
            THEN load_result(font_name,
                             unwrap(get_valid_font_path(font_name, map)).stem,
                             "from_file", outcome)
            ELSE Err(FontUnavailable(font_name))

BannerGenerator_new_defaulting(loaded) ==
    IF loaded.ok THEN Ok(loaded.value) ELSE Ok(FIGfont(Standard, "fonts::STANDARD"))

\* BannerGenerator::new on what load_font returned: `?`, then Ok(Self { font })
BannerGenerator_new(loaded) ==
    IF loaded.ok THEN Ok(loaded.value) ELSE Err(loaded.value)

\* BannerGenerator::generate; a figure is named by its font and its text
generate(generator, text, outcome) ==
    IF outcome = "figure"
        THEN Ok([kind |-> "figure", name |-> generator.name, detail |-> text])
        ELSE Err(ConversionFailed(text))

NoFontCall == [font_name |-> <<>>, loaded |-> {}, generator |-> {}, banner |-> {}]

\* the font directories as found, VALID_FONT_PATHS unset, nothing requested
NoFonts == [files |-> {}, map |-> {}, call |-> NoFontCall]

\* init_figlet_fonts_and_warn, when VALID_FONT_PATHS is still unset
init_figlet_fonts_and_warn ==
    /\ component = "fonts"
    /\ font.map = {}
    /\ \E m \in build_valid_font_map(font.files) :
           font' = [font EXCEPT !.map = {m}]
    /\ UNCHANGED <<scheduler_vars, replay_vars, last, cell, rendered, threads>>

\* BannerGenerator::new(font_name); get_or_init builds the map when unset
BannerGeneratorNew ==
    /\ component = "fonts"
    /\ \E font_name \in FontNames, outcome \in LoadOutcomes,
          m \in IF font.map = {} THEN build_valid_font_map(font.files) ELSE font.map :
           LET standard == to_lowercase(font_name) = Standard
               loaded == load_font(font_name, m, outcome)
               made == BannerGenerator_new(loaded)
           IN  font' = [font EXCEPT
                           !.map = IF standard THEN @ ELSE {m},
                           !.call = [font_name |-> font_name,
                                     loaded |-> {loaded},
                                     generator |-> {made},
                                     banner |-> {}]]
    /\ UNCHANGED <<scheduler_vars, replay_vars, last, cell, rendered, threads>>

\* generate("Hi") on the generator that new returned
BannerGenerate ==
    /\ component = "fonts"
    /\ font.call.generator # {}
    /\ unwrap(font.call.generator).ok
    /\ \E outcome \in ConvertOutcomes :
           font' = [font EXCEPT !.call.banner =
                       {generate(unwrap(font.call.generator).value, <<"H", "i">>, outcome)}]
    /\ UNCHANGED <<scheduler_vars, replay_vars, last, cell, rendered, threads>>

(* ------------------------------- styles ------------------------------- *)
(* The f32 values of the styles are fixed-point numbers, counted in        *)
(* thousandths: a hue of 180 degrees is 180000, the number 0.6 is 600.     *)
(* Products and quotients are truncated to the thousandth; f32 rounding is *)
(* not modelled.  ctx.hue_offset is kept in whole degrees, as the run      *)
(* state has it.  sin, cos and the fractional parts of the hashed seeds    *)
(* cannot be computed here: their values at a context are fields of the    *)
(* context (ctx.sin[k], ctx.fract[k], numbered in the order in which the   *)
(* style's code computes them) and range over SineValues and FractValues.  *)

\* one, in thousandths
Scale == 1000

\* at most this many non-whitespace chars in a banner
MaxChars == 2

\* f32 division, truncated toward zero at the thousandth
quot(a, b) == IF a >= 0 THEN a \div b ELSE 0 - ((0 - a) \div b)

\* a * b and a / b of two fixed-point numbers
times(a, b) == quot(a * b, Scale)
over(a, b) == quot(a * Scale, b)

\* the `%` of f32: the remainder has the sign of the dividend
rem(a, b) == IF a >= 0 THEN a % b ELSE 0 - ((0 - a) % b)

\* f32::fract of a fixed-point number: keeps the sign
fract(a) == rem(a, Scale)

abs(a) == IF a >= 0 THEN a ELSE 0 - a

clamp(a, lo, hi) == Max(lo, Min(a, hi))

\* `as u8`, `as i32`, `as usize` of an f32: truncates, and saturates at the
\* ends of the type
as_integer(a, lo, hi) == clamp(quot(a, Scale), lo, hi)

RECURSIVE sqrt_between(_, _, _)
sqrt_between(n, lo, hi) ==
    IF lo >= hi
        THEN lo
        ELSE LET mid == (lo + hi + 1) \div 2
             IN  IF mid * mid <= n
                     THEN sqrt_between(n, mid, hi)
                     ELSE sqrt_between(n, lo, mid - 1)

\* f32::sqrt of a * a + b * b, for fixed-point a and b
hypot(a, b) == sqrt_between(a * a + b * b, 0, 40 * Scale)

\* common::hsl_to_rgb: the Color, kept together with the arguments it was
\* made from
hsl_to_rgb(h, s, l) ==
    LET s1 == quot(s, 100)
        l1 == quot(l, 100)
        c == times(Scale - abs(2 * l1 - Scale), s1)
        x == times(c, Scale - abs(rem(quot(h, 60), 2 * Scale) - Scale))
        m == l1 - quot(c, 2)
        rgb == CASE h < 60 * Scale -> <<c, x, 0>>
                 [] h >= 60 * Scale /\ h < 120 * Scale -> <<x, c, 0>>
                 [] h >= 120 * Scale /\ h < 180 * Scale -> <<0, c, x>>
                 [] h >= 180 * Scale /\ h < 240 * Scale -> <<0, x, c>>
                 [] h >= 240 * Scale /\ h < 300 * Scale -> <<x, 0, c>>
                 [] OTHER -> <<c, 0, x>>
    IN  [rgb |-> [k \in 1..3 |-> as_integer((rgb[k] + m) * 255, 0, 255)],
         hsl |-> <<h, s, l>>]

\* hsl_to_rgb of whole degrees and per cents
hsl(h, s, l) == hsl_to_rgb(h * Scale, s * Scale, l * Scale)

\* Color::new(0, 0, 0), made without hsl_to_rgb
Black == [rgb |-> <<0, 0, 0>>, hsl |-> <<>>]

with_color(color) ==
    [color |-> color, bg_color |-> {}, replacement_char |-> {}]

with_bg(color, bg_color) ==
    [color |-> color, bg_color |-> {bg_color}, replacement_char |-> {}]

with_replacement(color, replacement_char) ==
    [color |-> color, bg_color |-> {}, replacement_char |-> {replacement_char}]

\* ctx.hue_offset, ctx.char_index, ... as f32
hue_of(ctx) == ctx.hue_offset * Scale
index_of(ctx) == ctx.char_index * Scale
chars_of(ctx) == ctx.total_chars * Scale

\* (ctx.char_index as f32 / ctx.total_chars as f32) * 360.0
index_hue(ctx) == times(over(index_of(ctx), chars_of(ctx)), 360 * Scale)

Caret == "U+258C"

Typewriter_reveal_all(ctx) == ctx.total_chars

\* reveal_count of Typewriter
Typewriter_reveal_count(ctx) ==
    LET progress == clamp(over(hue_of(ctx), 320 * Scale), 0, Scale)
    IN  Min(as_integer(progress * ctx.total_chars, 0, 2147483647),
            ctx.total_chars)

Typewriter_render_char(ctx) ==
    LET reveal_count == Typewriter_reveal_count(ctx)
    IN  IF ctx.hue_offset > 320 + 40
            THEN with_color(hsl(40, 20, 85))
            ELSE IF ctx.char_index < reveal_count
                THEN with_color(hsl(40, 20, 85))
                ELSE IF ctx.char_index = reveal_count /\ reveal_count < ctx.total_chars
                    THEN with_replacement(hsl(200, 85, 65), Caret)
                    ELSE IF reveal_count >= ctx.total_chars
                        THEN with_color(hsl(40, 20, 85))
                        ELSE with_replacement(hsl(0, 0, 0), " ")

\* Glitch; ctx.fract[1] is glitch_seed.fract(), ctx.fract[2] is
\* (glitch_seed * 1.234).fract(), ctx.fract[3] is char_glitch_seed.fract(),
\* and ctx.glitched is what glitch_chars::get_glitched_char returns
Glitch_render_char(ctx) ==
    LET hue_choice == as_integer(ctx.fract[1] * 3, 0 - 2147483647, 2147483647)
        hue == CASE hue_choice = 0 -> 180 * Scale
                 [] hue_choice = 1 -> 300 * Scale
                 [] OTHER -> ctx.fract[1] * 360
        lightness == 35 * Scale + ctx.fract[1] * 40
        saturation == 85 * Scale + ctx.fract[2] * 15
        glitch_intensity == Scale - Min(over(hue_of(ctx), 300 * Scale), Scale)
        glitch_threshold == 650 - times(glitch_intensity, 300)
        should_glitch == ctx.fract[3] > glitch_threshold
        color == hsl_to_rgb(hue, saturation, lightness)
    IN  IF ctx.hue_offset > 300
            THEN with_color(hsl(120, 60, 55))
            ELSE IF should_glitch /\ ctx.glitched # {}
                THEN with_replacement(color, unwrap(ctx.glitched))
                ELSE with_color(color)

\* animation_complete of Kaleidoscope
Kaleidoscope_complete(hue_offset) == hue_offset > 360

Kaleidoscope_faded_out(ctx) == 0

\* fade_factor of Kaleidoscope
Kaleidoscope_fade_factor(ctx) ==
    IF ctx.hue_offset < 320
        THEN Scale
        ELSE Scale - over(hue_of(ctx) - 320 * Scale, (360 - 320) * Scale)

\* radial_dist of Kaleidoscope, around the centre of `width` positions
Kaleidoscope_radial_dist(ctx, x, width) ==
    LET center_x == quot(width * Scale, 2)
        center_y == quot(ctx.total_rows * Scale, 2)
        dist_x == abs(x * Scale - center_x)
        dist_y == abs(ctx.row_index * Scale - center_y)
    IN  over(hypot(dist_x, dist_y), Max(center_x, Scale))

\* the background of Kaleidoscope: ctx.sin[1] is radial_wave and ctx.sin[2]
\* is sector_pattern; a set, empty when the cell gets no background
Kaleidoscope_background(ctx, x, width) ==
    LET radial_dist == Kaleidoscope_radial_dist(ctx, x, width)
        bg_complexity == times(ctx.sin[1], 600) + times(ctx.sin[2], 400)
        bg_hue_base == rem(times(hue_of(ctx), 2500), 360 * Scale)
        bg_hue == rem(bg_hue_base + bg_complexity * 120, 360 * Scale)
        bg_saturation ==
            clamp(60 * Scale + abs(bg_complexity) * 20, 60 * Scale, 80 * Scale)
        base_bg_lightness == 8 * Scale + radial_dist * 6
        bg_lightness ==
            times(clamp(base_bg_lightness + abs(bg_complexity) * 6,
                        8 * Scale, 20 * Scale),
                  Kaleidoscope_fade_factor(ctx))
    IN  [hue |-> bg_hue,
         color |-> IF bg_lightness > 500
                       THEN {hsl_to_rgb(bg_hue, bg_saturation, bg_lightness)}
                       ELSE {}]

\* Kaleidoscope; ctx.sin[3] and ctx.sin[4] are the sin and the cos of
\* fg_pattern
Kaleidoscope_render_char(ctx) ==
    LET fade_factor == Kaleidoscope_fade_factor(ctx)
        radial_dist == Kaleidoscope_radial_dist(ctx, ctx.char_index, ctx.total_chars)
        background == Kaleidoscope_background(ctx, ctx.char_index, ctx.total_chars)
        bg_hue == background.hue
        fg_pattern == times(ctx.sin[3], 500) + times(ctx.sin[4], 500)
        current_fg_hue ==
            rem(rem(bg_hue + 180 * Scale, 360 * Scale) + fg_pattern * 60, 360 * Scale)
        inverse_fade == Scale - fade_factor
        fg_hue == IF ctx.hue_offset < 320
                      THEN current_fg_hue
                      ELSE times(current_fg_hue, fade_factor)
                               + times(index_hue(ctx), inverse_fade)
        fg_saturation ==
            IF ctx.hue_offset < 320
                THEN clamp(88 * Scale + abs(fg_pattern) * 12, 88 * Scale, 100 * Scale)
                ELSE 100 * fade_factor + 85 * inverse_fade
        fg_lightness ==
            clamp(75 * Scale + radial_dist * 8 + abs(fg_pattern) * 6,
                  75 * Scale, 92 * Scale)
        sparkle == IF abs(ctx.sin[1] + ctx.sin[2]) > 940 THEN 6 * fade_factor ELSE 0
        final_fg_lightness == clamp(fg_lightness + sparkle, 75 * Scale, 95 * Scale)
        fg_color == hsl_to_rgb(fg_hue, fg_saturation, final_fg_lightness)
    IN  IF Kaleidoscope_complete(ctx.hue_offset)
            THEN with_color(hsl_to_rgb(index_hue(ctx), 85 * Scale, 75 * Scale))
            ELSE IF background.color # {}
                THEN with_bg(fg_color, unwrap(background.color))
                ELSE with_color(fg_color)

\* a whitespace cell of render_with_offset: only Kaleidoscope paints it,
\* around the centre of the row's columns
whitespace_cell(style, ctx) ==
    IF style = "Kaleidoscope" /\ ~Kaleidoscope_complete(ctx.hue_offset)
        THEN [color |-> Black,
              bg_color |-> Kaleidoscope_background(ctx, ctx.col_index,
                                                   ctx.total_cols).color,
              replacement_char |-> {}]
        ELSE with_color(Black)

Rainbow_render_char(ctx) ==
    LET hue == rem(index_hue(ctx) + hue_of(ctx), 360 * Scale)
    IN  with_color(hsl_to_rgb(hue, 100 * Scale, 50 * Scale))

Flash_render_char_by_call(ctx) ==
    LET hue == rem(hue_of(ctx) + rendered.calls * Scale, 360 * Scale)
    IN  with_color(hsl_to_rgb(hue, 100 * Scale, 50 * Scale))

Flash_render_char(ctx) ==
    LET hue == rem(hue_of(ctx), 360 * Scale)
    IN  with_color(hsl_to_rgb(hue, 100 * Scale, 50 * Scale))

\* Wave; ctx.sin[1] is the sine of the char's phase
Wave_render_char(ctx) ==
    LET hue == 200 * Scale + 60 * ctx.sin[1]
    IN  with_color(hsl_to_rgb(
            rem(rem(hue, 360 * Scale) + 360 * Scale, 360 * Scale),
            100 * Scale, 50 * Scale))

Iris_render_char(ctx) ==
    LET center == quot(chars_of(ctx), 2)
        pos == index_of(ctx)
        radius == times(over(hue_of(ctx), 360 * Scale), Max(center, Scale))
        dist == abs(pos - center)
        l == IF dist <= radius THEN 60 * Scale ELSE 35 * Scale
        hue == times(over(pos, chars_of(ctx)), 360 * Scale)
    IN  with_color(hsl_to_rgb(rem(hue, 360 * Scale), 100 * Scale, l))

\* Plasma; ctx.sin[1], ctx.sin[2] and ctx.sin[3] are wave1, wave2 and wave3
Plasma_render_char(ctx) ==
    LET hue == (quot(ctx.sin[1] + ctx.sin[2] + ctx.sin[3], 3) + Scale) * 180
    IN  with_color(hsl_to_rgb(rem(hue, 360 * Scale), 100 * Scale, 50 * Scale))

Scanner_render_char(ctx) ==
    LET scan_pos == over(hue_of(ctx), 360 * Scale) * ctx.total_chars
        dist == abs(index_of(ctx) - scan_pos)
        lightness == Max(70 * Scale - dist * 8, 30 * Scale)
    IN  with_color(hsl_to_rgb(0, 100 * Scale, lightness))

\* Neon; ctx.sin[1] is the sine of the pulse
Neon_render_char(ctx) ==
    LET palette == <<330, 195, 85, 280>>
        cycle_position ==
            rem(hue_of(ctx) + index_of(ctx) * 5, Len(palette) * 90 * Scale)
        palette_index ==
            as_integer(over(cycle_position, 90 * Scale), 0, 2147483647) % Len(palette)
        next_palette_index == (palette_index + 1) % Len(palette)
        t == over(rem(cycle_position, 90 * Scale), 90 * Scale)
        hue == palette[palette_index + 1] * (Scale - t)
                   + palette[next_palette_index + 1] * t
        lightness == 60 * Scale + ctx.sin[1] * 5
    IN  with_color(hsl_to_rgb(rem(hue, 360 * Scale), 100 * Scale, lightness))

\* Sepia; ctx.sin[1] is the sine of the char's phase
Sepia_render_char(ctx) ==
    with_color(hsl_to_rgb(30 * Scale, 45 * Scale, 35 * Scale + 15 * ctx.sin[1]))

\* matrix_chars::get_char of a seed whose fractional part is f: the char is
\* named by its index in MATRIX_CHARS, a table of 74 chars
get_char(f) ==
    "MATRIX_CHARS[" \o ToString(as_integer(abs(f) * 74, 0, 2147483647) % 74) \o "]"

\* Matrix; ctx.fract[1] is char_variation, ctx.sin[1] is glitch_chance and
\* ctx.fract[2] is the fractional part of the seed given to get_char
Matrix_render_char(ctx) ==
    LET char_variation == ctx.fract[1]
        time_offset == quot(hue_of(ctx), 8)
        cascade_pos == ctx.row_index * Scale - time_offset
        animation_complete == time_offset > (ctx.total_rows + 3) * Scale
        cascade_has_passed == time_offset > ctx.row_index * Scale
        distance_from_front == abs(cascade_pos)
        saturation_lightness ==
            CASE animation_complete -> <<90 * Scale, 55 * Scale>>
              [] /\ ~animation_complete
                 /\ distance_from_front < Scale /\ ~cascade_has_passed ->
                     <<40 * Scale + char_variation * 20,
                       75 * Scale + char_variation * 15>>
              [] /\ ~animation_complete
                 /\ distance_from_front >= Scale
                 /\ distance_from_front < 3 * Scale /\ ~cascade_has_passed ->
                     <<80 * Scale + char_variation * 20,
                       55 * Scale + char_variation * 15>>
              [] ~animation_complete /\ cascade_has_passed ->
                     <<90 * Scale, 50 * Scale + char_variation * 10>>
              [] OTHER -> <<70 * Scale, 15 * Scale + char_variation * 10>>
        replacement ==
            IF animation_complete
                THEN {}
                ELSE IF cascade_has_passed
                    THEN IF ctx.sin[1] > 950 THEN {get_char(ctx.fract[2])} ELSE {}
                    ELSE {get_char(ctx.fract[2])}
        color == hsl_to_rgb(120 * Scale, saturation_lightness[1],
                            saturation_lightness[2])
    IN  IF replacement # {}
            THEN with_replacement(color, unwrap(replacement))
            ELSE with_color(color)

\* Fire; ctx.sin[1] and ctx.sin[2] are the sines of flicker and of
\* lightness_flicker
Fire_render_char(ctx) ==
    LET vertical_pos == over(ctx.row_index * Scale, ctx.total_rows * Scale)
        hue == Min(Max(vertical_pos * 60 + ctx.sin[1] * 10, 0), 60 * Scale)
        lightness ==
            Min(Max(55 * Scale + ctx.sin[2] * 10, 45 * Scale), 65 * Scale)
    IN  with_color(hsl_to_rgb(hue, 100 * Scale, lightness))

\* Breathe; ctx.sin[1] is the sine of the breath
Breathe_render_char(ctx) ==
    with_color(hsl_to_rgb(rem(index_hue(ctx), 360 * Scale), 65 * Scale,
                          35 * Scale + 20 * ctx.sin[1]))

Prism_render_char(ctx) ==
    LET beam_width == quot(chars_of(ctx), 3)
        shifted_pos == index_of(ctx) + times(hue_of(ctx), 1500)
        beam_pos == rem(shifted_pos, beam_width)
        hue == times(over(beam_pos, beam_width), 360 * Scale)
        beam_center == quot(beam_width, 2)
        dist_from_center == abs(beam_pos - beam_center)
        lightness == 55 * Scale - over(dist_from_center, beam_center) * 10
    IN  with_color(hsl_to_rgb(rem(hue, 360 * Scale), 100 * Scale, lightness))

\* Aurora; ctx.sin[1] and ctx.sin[2] are wave1 and wave2, ctx.sin[3] and
\* ctx.sin[4] the sines of the saturation and of the lightness
Aurora_render_char(ctx) ==
    LET field == times(ctx.sin[1] + ctx.sin[2], 500)
        hue == 120 * Scale + times(times(field + Scale, 500), (280 - 120) * Scale)
        saturation == 70 * Scale + ctx.sin[3] * 15
        lightness == 45 * Scale + abs(field) * 18 + ctx.sin[4] * 6
    IN  with_color(hsl_to_rgb(rem(hue, 360 * Scale),
                              clamp(saturation, 35 * Scale, 100 * Scale),
                              clamp(lightness, 30 * Scale, 80 * Scale)))

\* Crt; ctx.sin[1] and ctx.sin[2] are the sin and the cos of base_hue,
\* ctx.fract[1] is the fractional part of the noise
Crt_render_char(ctx) ==
    LET t == hue_of(ctx)
        y == ctx.row_index * Scale
        base_hue ==
            rem(180 * Scale + ctx.sin[1] * 20 + ctx.sin[2] * 15, 360 * Scale)
        triad == ctx.col_index % 3
        hue == CASE triad = 0 -> rem(base_hue + 10 * Scale, 360 * Scale)
                 [] triad = 1 -> rem(base_hue + 140 * Scale, 360 * Scale)
                 [] OTHER -> rem(base_hue + 260 * Scale, 360 * Scale)
        scanline == IF ctx.row_index % 2 = 0 THEN 0 - 8 * Scale ELSE 0
        bar_pos == rem(times(t, 350), 360 * Scale)
        bar_row == over(bar_pos, 360 * Scale) * ctx.total_rows
        dist == abs(y - bar_row)
        bar_boost == (Scale - Min(over(dist, 2500), Scale)) * 18
        noise == ctx.fract[1] * 4 - 2 * Scale
        lightness == 42 * Scale + scanline + bar_boost + noise
    IN  with_color(hsl_to_rgb(hue, 75 * Scale,
                              clamp(lightness, 25 * Scale, 80 * Scale)))

\* BannerAnimationStyle
Styles ==
    {"Rainbow", "Flash", "Wave", "Iris", "Plasma", "Scanner", "Matrix", "Neon",
     "Kaleidoscope", "Sepia", "Prism", "Glitch", "Breathe", "Fire", "Aurora",
     "Crt", "Typewriter"}

\* get_animation(style).render_char(ctx)
render_char(style, ctx) ==
    CASE style = "Rainbow" -> Rainbow_render_char(ctx)
      [] style = "Flash" -> Flash_render_char(ctx)
      [] style = "Wave" -> Wave_render_char(ctx)
      [] style = "Iris" -> Iris_render_char(ctx)
      [] style = "Plasma" -> Plasma_render_char(ctx)
      [] style = "Scanner" -> Scanner_render_char(ctx)
      [] style = "Matrix" -> Matrix_render_char(ctx)
      [] style = "Neon" -> Neon_render_char(ctx)
      [] style = "Kaleidoscope" -> Kaleidoscope_render_char(ctx)
      [] style = "Sepia" -> Sepia_render_char(ctx)
      [] style = "Prism" -> Prism_render_char(ctx)
      [] style = "Glitch" -> Glitch_render_char(ctx)
      [] style = "Breathe" -> Breathe_render_char(ctx)
      [] style = "Fire" -> Fire_render_char(ctx)
      [] style = "Aurora" -> Aurora_render_char(ctx)
      [] style = "Crt" -> Crt_render_char(ctx)
      [] OTHER -> Typewriter_render_char(ctx)

\* one cell of render_with_offset: whitespace is painted apart
render_cell(style, ctx) ==
    IF ctx.ch \in Whitespace
        THEN whitespace_cell(style, ctx)
        ELSE render_char(style, ctx)

\* how many sin or cos values, and how many fractional parts, a style reads
sines_used(style) ==
    CASE style \in {"Kaleidoscope", "Aurora"} -> 4
      [] style = "Plasma" -> 3
      [] style \in {"Fire", "Crt"} -> 2
      [] style \in {"Wave", "Neon", "Sepia", "Matrix", "Breathe"} -> 1
      [] OTHER -> 0

fracts_used(style) ==
    CASE style = "Glitch" -> 3
      [] style = "Matrix" -> 2
      [] style = "Crt" -> 1
      [] OTHER -> 0

\* the values of a sine and of a fractional part that the model tries
SineValues == {0 - 1000, 0, 1000}
FractValues == {0 - 900, 0 - 400, 0, 400, 900}

\* the phases the model tries: the start, the first rows of Matrix, the
\* middle, the fade-out and settle thresholds, the end, and past the end
Phases == {0, 4, 160, 320, 340, 360, 400}

\* <<index, total>> of a row and of a column
Rows == {<<0, 2>>, <<1, 2>>}
Columns == {<<0, 3>>, <<1, 3>>, <<2, 3>>}

\* the values of `n` terms of which a style reads the first `used`
Terms(n, used, values) ==
    {t \in [1..n -> values \cup {0}] : \A k \in 1..n : k > used => t[k] = 0}

\* the AnimationContext render_with_offset builds for a cell, with the
\* values the sines and the fractional parts take at it
Context(hue_offset, char, row, col, ch, sin, fr, glitched) ==
    [hue_offset |-> hue_offset,
     char_index |-> char[1],
     total_chars |-> char[2],
     row_index |-> row[1],
     total_rows |-> row[2],
     col_index |-> col[1],
     total_cols |-> col[2],
     ch |-> ch,
     sin |-> sin,
     fract |-> fr,
     glitched |-> glitched]

\* <<index, total>> of a non-whitespace char
Chars == {c \in (0..(MaxChars - 1)) \X (1..MaxChars) : c[1] < c[2]}

\* the sines and the fractional parts a cell of `style` holding `ch` reads:
\* a whitespace cell reads the two sines of Kaleidoscope's background only
SinesOf(style, ch) ==
    Terms(4, IF ch \notin Whitespace THEN sines_used(style)
             ELSE IF style = "Kaleidoscope" THEN 2 ELSE 0,
          SineValues)

FractsOf(style, ch) ==
    Terms(3, IF ch \notin Whitespace THEN fracts_used(style) ELSE 0, FractValues)

\* what glitch_chars::get_glitched_char may return for the cell's char
GlitchedOf(style, ch) ==
    IF style = "Glitch" /\ ch \notin Whitespace THEN {{}, {"$"}} ELSE {{}}

\* at most this many cells rendered one after another
MaxCalls == 3

\* the first cell of a banner at two phases, the sines and the fractional
\* parts being those of one banner
SomeContexts(style) ==
    {Context(h, <<0, 1>>, <<0, 2>>, <<0, 3>>, "#",
             [k \in 1..4 |-> IF k <= sines_used(style) THEN 1000 ELSE 0],
             [k \in 1..3 |-> IF k <= fracts_used(style) THEN 900 ELSE 0],
             {}) : h \in {0, 160}}

\* a banner has at most this many rows
MaxRows == 2
\* a row of a banner has at most this many chars
MaxCols == 2

\* the rows a banner can hold: glyph chars and spaces
BannerRows == UNION {[1..n -> {"#", " "}] : n \in 0..MaxCols}

\* self.lines
BannerLines == UNION {[1..n -> BannerRows] : n \in 0..MaxRows}

\* the styles and the phases frames are rendered in
FrameStyles == {"Rainbow", "Typewriter"}
FramePhases == {0, 160}

RECURSIVE count_chars(_)
\* `self.lines.iter().flat_map(|line| line.chars())
\*      .filter(|c| !c.is_whitespace()).count()`
count_chars(lines) ==
    IF lines = <<>>
        THEN 0
        ELSE Len(SelectSeq(Head(lines), LAMBDA c : c \notin Whitespace))
                 + count_chars(Tail(lines))

\* next_char_index with the test for whitespace left out
next_char_index_of_any(char_index, ch) == char_index + 1

\* `if !is_whitespace { char_index += 1; }`
next_char_index(char_index, ch) ==
    IF ch \notin Whitespace THEN char_index + 1 ELSE char_index

RenderBlockLine(text) == [op |-> "RenderBlockLine", text |-> text]
RenderLineBreak == [op |-> "RenderLineBreak", text |-> <<>>]

\* a banner of `lines` in `style`, before render_with_offset(hue_offset)
Frame(lines, style, hue_offset) ==
    [lines |-> lines, style |-> style, hue_offset |-> hue_offset,
     pc |-> "new", total_chars |-> 0, char_index |-> 0,
     row_index |-> 0, col_index |-> 0,
     colored_text |-> <<>>, operations |-> <<>>, contexts |-> <<>>]

NoFrame == Frame(<<>>, "", 0)

NoCell == [style |-> "", ctx |-> <<>>, result |-> <<>>]

NoRendered == [first |-> {}, calls |-> 0, others |-> 0, frame |-> NoFrame]

\* the renderer builds the context `ctx` of a cell and renders it in `style`
RenderCell(style, ctx) ==
    /\ cell' = [style |-> style, ctx |-> ctx, result |-> render_cell(style, ctx)]
    /\ rendered' =
           [first |-> IF rendered.first = {} THEN {cell'} ELSE rendered.first,
            calls |-> rendered.calls + 1,
            others |-> IF \E c \in rendered.first : c.style # style \/ c.ctx # ctx
                           THEN Min(rendered.others + 1, 1)
                           ELSE rendered.others,
            frame |-> rendered.frame]
    /\ UNCHANGED <<scheduler_vars, replay_vars, last, font, threads>>

\* one cell of one frame, of any style and at any context of the model
RenderOneCell ==
    /\ component = "style"
    /\ rendered.calls = 0
    /\ \E style \in Styles, ch \in {"#", " "} :
           \E h \in Phases, char \in Chars, row \in Rows, col \in Columns,
              s \in SinesOf(style, ch), f \in FractsOf(style, ch),
              g \in GlitchedOf(style, ch) :
               RenderCell(style, Context(h, char, row, col, ch, s, f, g))

\* cells rendered one after another, of any style
RenderNextCell ==
    /\ component = "cells"
    /\ rendered.calls < MaxCalls
    /\ \E style \in Styles :
           \E ctx \in SomeContexts(style) : RenderCell(style, ctx)

(* ------------------------------- frames ------------------------------- *)
(* render_with_offset, taken apart into its prologue, one step for each    *)
(* cell of the inner loop, one for the end of each row and the return.     *)

\* a step of render_with_offset takes the frame to f
RenderWithOffsetStep(f) ==
    /\ component = "frame"
    /\ rendered' = [rendered EXCEPT !.frame = f]
    /\ UNCHANGED <<scheduler_vars, replay_vars, font, cell, threads>>

\* render_with_offset: the prologue, which counts total_chars
RenderWithOffset ==
    LET f == rendered.frame
    IN  /\ f.pc = "new"
        /\ RenderWithOffsetStep([f EXCEPT !.pc = "loop",
                                          !.total_chars = count_chars(f.lines)])
        /\ UNCHANGED last

\* the body of the inner loop for the cell at (row_index, col_index)
RenderWithOffsetCell ==
    LET f == rendered.frame
    IN  /\ f.pc = "loop"
        /\ f.row_index < Len(f.lines)
        /\ f.col_index < Len(f.lines[f.row_index + 1])
        /\ LET line == f.lines[f.row_index + 1]
               ch == line[f.col_index + 1]
               ctx == Context(f.hue_offset,
                              <<f.char_index, f.total_chars>>,
                              <<f.row_index, Len(f.lines)>>,
                              <<f.col_index, Len(line)>>,
                              ch, <<0, 0, 0, 0>>, <<0, 0, 0>>, {})
               display_char == unwrap_or(render_cell(f.style, ctx).replacement_char, ch)
           IN  RenderWithOffsetStep(
                   [f EXCEPT !.contexts = Append(@, ctx),
                             !.char_index = next_char_index(@, ch),
                             !.colored_text = Append(@, display_char),
                             !.col_index = @ + 1])
        /\ UNCHANGED last

\* the end of the outer loop's body: the row's block line and a line break
RenderWithOffsetRow ==
    LET f == rendered.frame
    IN  /\ f.pc = "loop"
        /\ f.row_index < Len(f.lines)
        /\ f.col_index = Len(f.lines[f.row_index + 1])
        /\ RenderWithOffsetStep(
               [f EXCEPT !.operations =
                             @ \o <<RenderBlockLine(f.colored_text), RenderLineBreak>>,
                         !.colored_text = <<>>,
                         !.row_index = @ + 1,
                         !.col_index = 0])
        /\ UNCHANGED last

\* `operations`, returned after the last row
RenderWithOffsetReturn ==
    LET f == rendered.frame
    IN  /\ f.pc = "loop"
        /\ f.row_index = Len(f.lines)
        /\ RenderWithOffsetStep([f EXCEPT !.pc = "returned"])
        /\ last' = Call("render", 0, "ops", f.operations)

(* ------------------------------- mutex -------------------------------- *)
(* poll and as_render_operations of one banner or one player, each taken   *)
(* apart into the steps another thread can come between: taking the Mutex  *)
(* of the run state, each assignment to a field of it, the read of the     *)
(* field that is drawn, and the drop of the guard.                         *)

may_lock_anyway(mutex) == TRUE

\* Mutex::lock returns once no guard of the mutex is alive
may_lock(mutex) == mutex = {}

\* poll and second are the calls in progress on the two pollables that
\* pollable() handed out for the one run state; done_by is history, the
\* pollables whose poll has returned Done; guards are the guards alive on
\* the orchestrator's mutexes, as <<thread, lock>>, and calls the
\* orchestrator call each thread is in
IdleCall == [pc |-> "idle", op |-> "", current |-> 0]

NoThreads ==
    [mutex |-> {}, poll |-> {}, second |-> {}, render |-> "idle",
     committed |-> {}, done_by |-> {}, guards |-> {},
     calls |-> [t \in {"poll", "render", "navigate"} |-> IdleCall]]

\* the AnimationState or PlaybackState behind the Arc<Mutex<..>>
RunState == IF component = "banner" THEN anim_state[0] ELSE playback_state

\* what poll does on the run state as it is now
PollNow ==
    IF component = "banner"
        THEN RainbowAnimationPollable_poll(anim_state[0], animations[0], now)
        ELSE AsciinemaPlaybackPollable_poll(playback_state, player, now)

\* the assignments by which poll takes the run state from st to st2, in the
\* order of the code; assigning a field the value it has is left out
field_writes(st, st2) ==
    LET fields == IF component = "banner"
                      THEN <<"start_time", "hue_offset", "completed">>
                      ELSE <<"start_time", "current_time", "completed">>
        changed == SelectSeq(fields, LAMBDA f : st[f] # st2[f])
    IN  [k \in 1..Len(changed) |->
            [field |-> changed[k], value |-> st2[changed[k]]]]

\* poll: `let mut state = self.state.lock().unwrap()`, and the branch taken
PollLockOf(p) ==
    /\ component \in {"banner", "player"}
    /\ threads[p] = {}
    /\ may_lock(threads.mutex)
    /\ threads' = [threads EXCEPT
                      !.mutex = @ \cup {p},
                      ![p] = {[writes |-> field_writes(RunState, PollNow.state),
                               ret |-> PollNow.ret]}]
    /\ UNCHANGED <<scheduler_vars, replay_vars, last, font, cell, rendered>>

\* poll: the next `state.field = value`
PollWriteOf(p) ==
    /\ threads[p] # {}
    /\ unwrap(threads[p]).writes # <<>>
    /\ LET w == Head(unwrap(threads[p]).writes)
       IN  IF component = "banner"
               THEN /\ anim_state' = [anim_state EXCEPT ![0][w.field] = w.value]
                    /\ UNCHANGED playback_state
               ELSE /\ playback_state' = [playback_state EXCEPT ![w.field] = w.value]
                    /\ UNCHANGED anim_state
    /\ threads' = [threads EXCEPT
                      ![p] = {[unwrap(@) EXCEPT !.writes = Tail(@)]}]
    /\ UNCHANGED <<component, now, animations, context, player, dones,
                   playback_dones, selected_ms, replay_vars, last, font, cell,
                   rendered>>

\* poll: the return, which drops the guard
PollUnlockOf(p) ==
    /\ threads[p] # {}
    /\ unwrap(threads[p]).writes = <<>>
    /\ LET ret == unwrap(threads[p]).ret
       IN  /\ last' = Call("poll", 0, ret, <<>>)
           /\ IF component = "banner"
                  THEN /\ dones' = [dones EXCEPT ![0] =
                                       IF ret = "Done" THEN Bump(@) ELSE @]
                       /\ UNCHANGED playback_dones
                  ELSE /\ playback_dones' =
                              IF ret = "Done" THEN Bump(playback_dones)
                                              ELSE playback_dones
                       /\ UNCHANGED dones
    /\ threads' = [threads EXCEPT
                      !.mutex = @ \ {p},
                      ![p] = {},
                      !.committed = {RunState},
                      !.done_by = IF unwrap(threads[p]).ret = "Done"
                                      THEN @ \cup {p} ELSE @]
    /\ UNCHANGED <<component, now, animations, anim_state, context, player,
                   playback_state, selected_ms, replay_vars, font, cell, rendered>>

\* the pollable the scheduler polls
PollLock == PollLockOf("poll")
PollWrite == PollWriteOf("poll")
PollUnlock == PollUnlockOf("poll")

\* a pollable that a second call of pollable() returned: it holds a clone
\* of the same Arc, so its poll takes the same Mutex
SecondPollLock == PollLockOf("second")
SecondPollWrite == PollWriteOf("second")
SecondPollUnlock == PollUnlockOf("second")

\* as_render_operations: `let state = self.state.lock().unwrap()`
RenderLock ==
    /\ component \in {"banner", "player"}
    /\ threads.render = "idle"
    /\ may_lock(threads.mutex)
    /\ threads' = [threads EXCEPT !.mutex = @ \cup {"render"}, !.render = "locked"]
    /\ UNCHANGED <<scheduler_vars, replay_vars, last, font, cell, rendered>>

\* as_render_operations: the frame of state.hue_offset or state.current_time
\* is drawn, and the return drops the guard
RenderDraw ==
    /\ threads.render = "locked"
    /\ last' = Call("render", 0, "ops",
                    IF component = "banner"
                        THEN render_with_offset(0, anim_state[0].hue_offset)
                        ELSE render_frame(playback_state.current_time))
    /\ threads' = [threads EXCEPT !.mutex = @ \ {"render"}, !.render = "idle"]
    /\ UNCHANGED <<scheduler_vars, replay_vars, font, cell, rendered>>

(* ----------------------------- lock order ----------------------------- *)
(* The orchestrator's poll, its render and the navigation calls, each on   *)
(* a thread of its own and taken apart at its locks: the Mutex of the      *)
(* MultiBannerContext, and the Mutex of the run state of each entry.       *)

Callers == {"poll", "render", "navigate"}

NavigationOps ==
    {"mutate_next", "mutate_previous", "reset_mutations", "apply_all_mutations"}

\* the calls a thread makes
OpsOf(t) == IF t = "navigate" THEN NavigationOps ELSE {t}

\* the Mutex of the MultiBannerContext, and the Mutex of entry i's run state
ContextMutex == <<"context", 0>>
EntryMutex(i) == <<"entry", i>>

\* the threads that hold a guard of `lock`
holders(guards, lock) == {g[1] : g \in {h \in guards : h[2] = lock}}

\* the locks thread t holds a guard of
held(guards, t) == {g[2] : g \in {h \in guards : h[1] = t}}

\* the guard of the context kept to the end of the call
drop_context_at_return(guards, t) == guards

\* `drop(context)`, right after `let current = context.current`
drop_context(guards, t) == guards \ {<<t, ContextMutex>>}

\* the return of a call drops every guard that is still alive
drop_all(guards, t) == {g \in guards : g[1] # t}

OrderUnchanged ==
    UNCHANGED <<component, animations, player, playback_state, playback_dones,
                selected_ms, replay_vars, font, cell, rendered>>

\* thread t returns from its call
CallReturns(t, cs) ==
    threads' = [threads EXCEPT !.guards = drop_all(@, t),
                               !.calls = [cs EXCEPT ![t] = IdleCall]]

\* thread t calls op: it is at the call's first statement
OrderCall(t) ==
    /\ component = "multi_banner"
    /\ threads.calls[t].pc = "idle"
    /\ \E op \in OpsOf(t) :
           threads' = [threads EXCEPT
                          !.calls[t] = [pc |-> "called", op |-> op, current |-> 0]]
    /\ UNCHANGED <<now, context, anim_state, dones, last>>
    /\ OrderUnchanged

\* `self.context.lock().unwrap()`: waits for the guard; panics, with no
\* guard kept, if the mutex is poisoned
ContextLock(t) ==
    /\ threads.calls[t].pc = "called"
    /\ may_lock(holders(threads.guards, ContextMutex))
    /\ IF context.poisoned
           THEN /\ CallReturns(t, threads.calls)
                /\ last' = Call(threads.calls[t].op, 0, "panic", <<>>)
           ELSE /\ threads' = [threads EXCEPT
                                  !.guards = @ \cup {<<t, ContextMutex>>},
                                  !.calls[t].pc = "locked"]
                /\ UNCHANGED last
    /\ UNCHANGED <<now, context, anim_state, dones>>
    /\ OrderUnchanged

\* poll and as_render_operations: `let current = context.current;
\* drop(context);`
CopyCurrent(t) ==
    /\ t \in {"poll", "render"}
    /\ threads.calls[t].pc = "locked"
    /\ threads' = [threads EXCEPT
                      !.guards = drop_context(@, t),
                      !.calls[t].pc = "copied",
                      !.calls[t].current = context.current]
    /\ UNCHANGED <<now, context, anim_state, dones, last>>
    /\ OrderUnchanged

\* the entry the call of t delegates to
TargetOf(t) ==
    IF t = "poll" THEN poll_target(threads.calls[t].current)
                  ELSE render_target(threads.calls[t].current)

\* poll and as_render_operations: `get(current)`, and when there is such an
\* entry its own `self.state.lock().unwrap()`; when there is none the call
\* returns Unmodified, or no operations
EntryLock(t) ==
    /\ t \in {"poll", "render"}
    /\ threads.calls[t].pc = "copied"
    /\ IF TargetOf(t) \in Entries
           THEN /\ may_lock(holders(threads.guards, EntryMutex(TargetOf(t))))
                /\ threads' = [threads EXCEPT
                                  !.guards = @ \cup {<<t, EntryMutex(TargetOf(t))>>},
                                  !.calls[t].pc = "entry"]
                /\ UNCHANGED last
           ELSE /\ CallReturns(t, threads.calls)
                /\ last' = Call(t, TargetOf(t),
                                IF t = "poll" THEN "Unmodified" ELSE "ops", <<>>)
    /\ UNCHANGED <<now, context, anim_state, dones>>
    /\ OrderUnchanged

\* poll and as_render_operations: the entry's poll or render under the
\* entry's guard, and the return
EntryBody(t) ==
    /\ t \in {"poll", "render"}
    /\ threads.calls[t].pc = "entry"
    /\ IF t = "poll"
           THEN PollEntry(TargetOf(t))
           ELSE RenderEntry(TargetOf(t)) /\ UNCHANGED <<anim_state, dones>>
    /\ CallReturns(t, threads.calls)
    /\ UNCHANGED <<now, context>>
    /\ OrderUnchanged

\* what the navigation call op does to the context
NavigationResults(op) ==
    IF op = "mutate_next"
        THEN {next_index(context, l) : l \in usize_sub(context.total, 1)}
    ELSE IF op = "mutate_previous" THEN {previous_index(context)}
    ELSE IF op = "reset_mutations" THEN {reset_index(context)}
    ELSE {apply_all_index(context, l) : l \in usize_sub(context.total, 1)}

\* a navigation call: its body under the guard of the context, and the
\* return; a panic in the body poisons the mutex
NavigationBody ==
    /\ threads.calls["navigate"].pc = "locked"
    /\ \E r \in NavigationResults(threads.calls["navigate"].op) :
           /\ InReach(r.current)
           /\ last' = Call(threads.calls["navigate"].op, 0, r.ret, <<>>)
           /\ context' = [context EXCEPT !.current = r.current,
                                         !.poisoned = (r.ret = "panic")]
    /\ CallReturns("navigate", threads.calls)
    /\ UNCHANGED <<now, anim_state, dones>>
    /\ OrderUnchanged

\* the next step of thread t
OrderStep(t) ==
    \/ OrderCall(t)
    \/ ContextLock(t)
    \/ CopyCurrent(t)
    \/ EntryLock(t)
    \/ EntryBody(t)
    \/ t = "navigate" /\ NavigationBody

(* --------------------------- specifications --------------------------- *)

NoPlayer == AsciinemaPlayer_new(<<>>, FALSE, MinSpeedTenths)

BannerConfigs(millis) ==
    {RainbowBannerAnimation_new(l, d) : l \in BOOLEAN, d \in millis}

\* `total` banners as constructed, index 0 selected, nothing polled yet
Banners(total, millis) ==
    /\ animations \in [0..(total - 1) -> BannerConfigs(millis)]
    /\ context = [current |-> 0, total |-> total, poisoned |-> FALSE]
    /\ anim_state = [i \in DOMAIN animations |-> AnimationState_new]
    /\ dones = [i \in DOMAIN animations |-> 0]
    /\ selected_ms = [i \in DOMAIN animations |-> 0]
    /\ player = NoPlayer

\* a banner that stands alone
InitBanner ==
    /\ component = "banner"
    /\ Banners(1, DurationMillis)

\* a multi-banner of 1..MaxTotal banners
InitMultiBanner ==
    /\ component = "multi_banner"
    /\ \E total \in 1..MaxTotal : Banners(total, MultiDurationMillis)

\* a player of one recording, nothing polled yet
InitPlayer ==
    /\ component = "player"
    /\ player \in {AsciinemaPlayer_new(e, l, s) :
                       e \in Recordings, l \in BOOLEAN, s \in SpeedInputs}
    /\ animations = <<>>
    /\ anim_state = <<>>
    /\ dones = <<>>
    /\ selected_ms = <<>>
    /\ context = [current |-> 0, total |-> 0, poisoned |-> FALSE]

\* no cast file and no screen
NoCast ==
    /\ content = <<>>
    /\ recording = {}
    /\ query = NoReplay
    /\ screen = NoScreen

\* no font requested, no cell rendered, nobody inside the mutex
NoDrawing ==
    /\ font = NoFonts
    /\ cell = NoCell
    /\ rendered = NoRendered
    /\ threads = NoThreads

Fresh ==
    /\ now = 0
    /\ playback_state = PlaybackState_new
    /\ playback_dones = 0
    /\ last = NoCall
    /\ NoCast
    /\ NoDrawing

\* one pollable instance, a banner or a player, with its scheduler and renderer
Init == Fresh /\ (InitBanner \/ InitPlayer)

Next ==
    \/ Tick
    \/ BannerPoll
    \/ BannerRender
    \/ PlaybackPoll
    \/ AsciinemaPlayer_as_render_operations

Spec == Init /\ [][Next]_vars

\* the multi-banner orchestrator with its scheduler, renderer and navigation
MultiInit == Fresh /\ InitMultiBanner

MultiCalls ==
    \/ MultiBannerPollable_poll
    \/ MultiBannerLine_as_render_operations
    \/ mutate_next
    \/ mutate_previous
    \/ reset_mutations
    \/ apply_all_mutations

MultiNext == MultiTick \/ MultiCalls

MultiSpec == MultiInit /\ [][MultiNext]_vars

\* the orchestrator, with the time each entry spent selected measured
SelectedNext == SelectedTick \/ MultiCalls

SelectedSpec == MultiInit /\ [][SelectedNext]_vars

\* an orchestrator that was given no banner: total = 0
EmptyInit ==
    /\ Fresh
    /\ component = "multi_banner"
    /\ Banners(0, MultiDurationMillis)

EmptySpec == EmptyInit /\ [][MultiNext]_vars

\* an orchestrator of 0..MaxTotal banners
OrderInit ==
    /\ Fresh
    /\ component = "multi_banner"
    /\ \E total \in 0..MaxTotal : Banners(total, {MaxMultiTime})

OrderNext == \E t \in Callers : OrderStep(t)

\* the orchestrator with the scheduler's thread, the renderer's thread and
\* the navigation's thread interleaved lock by lock
OrderSpec == OrderInit /\ [][OrderNext]_vars

\* a millisecond passes after the playback's first poll
ArmedTick ==
    /\ component = "player"
    /\ playback_state.start_time # {}
    /\ Advance(MaxTime)
    /\ UNCHANGED selected_ms

LoopNext ==
    \/ ArmedTick
    \/ PlaybackPoll
    \/ AsciinemaPlayer_as_render_operations

LoopInit == Fresh /\ InitPlayer

\* a player whose first poll is made at the clock's origin
LoopSpec == LoopInit /\ [][LoopNext]_vars

LockNext ==
    \/ Tick
    \/ PollLock
    \/ PollWrite
    \/ PollUnlock
    \/ RenderLock
    \/ RenderDraw

\* one banner or one player, with the scheduler's thread and the renderer's
\* thread interleaved step by step
LockSpec == Init /\ [][LockNext]_vars

SharedNext ==
    \/ Tick
    \/ PollLock
    \/ PollWrite
    \/ PollUnlock
    \/ SecondPollLock
    \/ SecondPollWrite
    \/ SecondPollUnlock

\* one banner or one player and two pollables of it, polled from two
\* threads interleaved step by step
SharedSpec == Init /\ [][SharedNext]_vars

\* a millisecond passes after the first poll of the banner or the player
LiveTick ==
    /\ component \in {"banner", "player"}
    /\ RunState.start_time # {}
    /\ Advance(LiveMaxTime)
    /\ UNCHANGED selected_ms

LiveNext ==
    \/ LiveTick
    \/ BannerPoll
    \/ BannerRender
    \/ PlaybackPoll
    \/ AsciinemaPlayer_as_render_operations

\* a banner or a player whose scheduler keeps polling while the clock, read
\* from the first poll on, keeps advancing
LiveSpec ==
    /\ Init
    /\ [][LiveNext]_vars
    /\ WF_vars(LiveTick)
    /\ WF_vars(BannerPoll)
    /\ WF_vars(PlaybackPoll)

\* cycles too long for every millisecond of them to be an f32
LongDurationMillis == {F32_EXACT + 1}

\* readings of the clock around the end of such a cycle
LongTimes ==
    {0, 1, 2, 3, F32_EXACT - 1, F32_EXACT, F32_EXACT + 1, F32_EXACT + 2}

\* time passes, up to hours of it, until the clock is read again
LongTick ==
    /\ UNCHANGED <<replay_vars, drawing_vars>>
    /\ component = "banner"
    /\ \E t \in LongTimes : t > now /\ now' = t
    /\ last' = Call("tick", 0, "unit", <<>>)
    /\ UNCHANGED <<component, animations, anim_state, context, player,
                   playback_state, dones, playback_dones, selected_ms>>

LongInit ==
    /\ Fresh
    /\ component = "banner"
    /\ Banners(1, DurationMillis \cup LongDurationMillis)

LongNext ==
    \/ LongTick
    \/ BannerPoll
    \/ BannerRender

\* a banner of a short or of a very long cycle, polled at any spacing
LongSpec == LongInit /\ [][LongNext]_vars

\* no animation and no player
NoAnimation ==
    /\ now = 0
    /\ playback_state = PlaybackState_new
    /\ playback_dones = 0
    /\ last = NoCall
    /\ player = NoPlayer
    /\ animations = <<>>
    /\ anim_state = <<>>
    /\ dones = <<>>
    /\ selected_ms = <<>>
    /\ context = [current |-> 0, total |-> 0, poisoned |-> FALSE]

\* a cast file, before from_cast is called on it
CastInit ==
    /\ component = "cast"
    /\ NoAnimation
    /\ content \in CastFiles
    /\ recording = {}
    /\ query = NoReplay
    /\ screen = NoScreen
    /\ NoDrawing

CastNext ==
    \/ FromCast
    \/ Duration
    \/ GetFrameAt
    \/ RenderFrame

\* from_cast on a cast file, then the queries of the recording it returned
CastSpec == CastInit /\ [][CastNext]_vars

\* headers of version 2 that declare no columns, no rows, or neither
ZeroDimensions ==
    {<<Integer(0), Integer(2)>>, <<Integer(3), Integer(0)>>,
     <<Integer(0), Integer(0)>>}

\* payloads that print a char, feed a line, or both
ZeroPayloads == {<<"a">>, <<"LF">>, <<"a", "LF", "a">>}

\* casts with such a header and up to MaxEvents output events
ZeroCastFiles ==
    {<<HeaderLine(Integer(SupportedVersion), d[1], d[2])>> \o rest :
         d \in ZeroDimensions,
         rest \in UNION {[1..n -> {EventLine(t, "o", p) :
                                       t \in CastTimes, p \in ZeroPayloads}] :
                             n \in 0..MaxEvents}}

\* a cast file that declares a screen without columns or without rows
ZeroInit ==
    /\ component = "cast"
    /\ NoAnimation
    /\ content \in ZeroCastFiles
    /\ recording = {}
    /\ query = NoReplay
    /\ screen = NoScreen
    /\ NoDrawing

\* from_cast on such a file, then the queries of the recording it returned
ZeroSpec == ZeroInit /\ [][CastNext]_vars

\* an empty screen of 1..MaxWidth columns
TerminalInit ==
    /\ component = "terminal"
    /\ NoAnimation
    /\ content = <<>>
    /\ recording = {}
    /\ query = NoReplay
    /\ \E width \in 1..MaxWidth, height \in Heights, overflow_checks \in BOOLEAN :
           screen = in_build(TerminalScreen_new(width, height), overflow_checks)
    /\ NoDrawing

TerminalNext ==
    \/ TerminalPrint
    \/ TerminalExecute
    \/ TerminalCsiDispatch
    \/ TerminalEscDispatch
    \/ TerminalOscDispatch
    \/ TerminalHook
    \/ TerminalPut
    \/ TerminalUnhook

\* the calls a parser makes on a TerminalScreen, in any order
TerminalSpec == TerminalInit /\ [][TerminalNext]_vars

\* the font directories of a system, before any font is asked for
FontInit ==
    /\ component = "fonts"
    /\ NoAnimation
    /\ NoCast
    /\ \E files \in SUBSET FontFiles :
           /\ Cardinality(files) <= MaxFiles
           /\ font = [NoFonts EXCEPT !.files = files]
    /\ cell = NoCell
    /\ rendered = NoRendered
    /\ threads = NoThreads

FontNext ==
    \/ init_figlet_fonts_and_warn
    \/ BannerGeneratorNew
    \/ BannerGenerate

\* the font whitelist and the generators made from it
FontSpec == FontInit /\ [][FontNext]_vars

\* a banner of some lines, before it is rendered
FrameInit ==
    /\ component = "frame"
    /\ NoAnimation
    /\ NoCast
    /\ font = NoFonts
    /\ cell = NoCell
    /\ threads = NoThreads
    /\ \E lines \in BannerLines, style \in FrameStyles, h \in FramePhases :
           rendered = [NoRendered EXCEPT !.frame = Frame(lines, style, h)]

FrameNext ==
    \/ RenderWithOffset
    \/ RenderWithOffsetCell
    \/ RenderWithOffsetRow
    \/ RenderWithOffsetReturn

\* one call of render_with_offset, step by step
FrameSpec == FrameInit /\ [][FrameNext]_vars

\* nothing rendered yet
StyleInit ==
    /\ component = "style"
    /\ NoAnimation
    /\ NoCast
    /\ NoDrawing

\* one cell rendered in one style
StyleSpec == StyleInit /\ [][RenderOneCell]_vars

CellsInit ==
    /\ component = "cells"
    /\ NoAnimation
    /\ NoCast
    /\ NoDrawing

\* a renderer that renders cell after cell
CellsSpec == CellsInit /\ [][RenderNextCell]_vars

(* ------------------------------ claims -------------------------------- *)

\* this step is a poll of banner entry i
PollOf(i) == last'.op = "poll" /\ last'.entry = i

\* this step is a poll of the player
PlayerPoll == component = "player" /\ last'.op = "poll"

\* ms since banner entry i's start time was armed
ElapsedOf(i) == now - unwrap(anim_state[i].start_time)

\* the player's `elapsed * speed`
PlaybackTime ==
    playback_time_at(now - unwrap(playback_state.start_time), player.speed)

\* the player's duration()
PlaybackDuration == duration(player.events)

\* C1: a banner that does not loop never returns Done twice; a poll at or
\* after the cycle's end returns Done if none did before, and otherwise
\* returns Unmodified and leaves hue_offset, start_time and completed as
\* they were.
C1_banner_done_exactly_once ==
    /\ [](\A i \in Entries : dones[i] <= 1)
    /\ [][\A i \in Entries :
            (/\ ~animations[i].loop_animation
             /\ PollOf(i)
             /\ anim_state[i].start_time # {}
             /\ ElapsedOf(i) >= animations[i].duration)
            => IF dones[i] = 0
                   THEN last'.ret = "Done" /\ dones'[i] = 1
                   ELSE /\ last'.ret = "Unmodified"
                        /\ anim_state'[i] = anim_state[i]
                        /\ dones'[i] = dones[i]]_vars

\* C1's case: polls went on past the cycle's end, one returned Done and the
\* last one Unmodified
C1_witness ==
    \E i \in Entries :
        /\ ~animations[i].loop_animation
        /\ dones[i] = 1
        /\ last.op = "poll" /\ last.ret = "Unmodified"
        /\ ElapsedOf(i) > animations[i].duration

\* C2: a playback that does not loop never returns Done twice; the poll that
\* returns Done is the first at or after duration(), and sets current_time
\* to duration() and completed; later polls return Unmodified and change
\* nothing; below duration() a poll returns Modified and stores the scaled
\* elapsed time.
C2_playback_done_exactly_once ==
    /\ [](playback_dones <= 1)
    /\ [][(/\ PlayerPoll
           /\ ~player.loop_playback
           /\ playback_state.start_time # {})
          => IF PlaybackTime >= PlaybackDuration
                 THEN IF playback_dones = 0
                          THEN /\ last'.ret = "Done"
                               /\ playback_dones' = 1
                               /\ playback_state' =
                                      [playback_state EXCEPT
                                          !.current_time = PlaybackDuration,
                                          !.completed = TRUE]
                          ELSE /\ last'.ret = "Unmodified"
                               /\ playback_dones' = playback_dones
                               /\ playback_state' = playback_state
                 ELSE /\ last'.ret = "Modified"
                      /\ playback_dones' = playback_dones
                      /\ playback_state' =
                             [playback_state EXCEPT !.current_time = PlaybackTime]]_vars

\* C2's case: a recording of positive duration played to its end, Done
\* returned once and Unmodified by the last poll
C2_witness ==
    /\ component = "player"
    /\ ~player.loop_playback
    /\ playback_dones = 1
    /\ last.op = "poll" /\ last.ret = "Unmodified"
    /\ PlaybackDuration > 0
    /\ playback_state.current_time = PlaybackDuration
    /\ playback_state.completed

\* C3: when a banner's poll returns Done, hue_offset is 360.
C3_done_stores_full_circle ==
    \A i \in Entries :
        (last.op = "poll" /\ last.entry = i /\ last.ret = "Done")
        => anim_state[i].hue_offset = FullCircle

\* C4: a poll that finds start_time unset sets it to the clock reading, leaves
\* hue_offset / current_time at 0 and returns Modified, whatever the loop
\* flag and the duration.
C4_first_poll_arms ==
    [][/\ \A i \in Entries :
            (PollOf(i) /\ anim_state[i].start_time = {})
            => /\ last'.ret = "Modified"
               /\ anim_state'[i] = [hue_offset |-> 0, start_time |-> {now},
                                    completed |-> FALSE]
       /\ (PlayerPoll /\ playback_state.start_time = {})
            => /\ last'.ret = "Modified"
               /\ playback_state' = [start_time |-> {now}, current_time |-> 0,
                                     completed |-> FALSE]]_vars

\* C4's case: the first poll of a playback that does not loop and whose
\* recording has duration 0, made after the clock has advanced
C4_witness ==
    /\ component = "player"
    /\ ~player.loop_playback
    /\ PlaybackDuration = 0
    /\ now > 0
    /\ last.op = "poll" /\ last.ret = "Modified"
    /\ playback_state.start_time = {now}
    /\ playback_dones = 0

\* C5: a looping banner or playback returns Modified from every poll, never
\* Done or Unmodified, and is never marked completed.
C5_looping_always_modified ==
    /\ \A i \in Entries :
          animations[i].loop_animation
          => /\ ~anim_state[i].completed
             /\ dones[i] = 0
             /\ (last.op = "poll" /\ last.entry = i) => last.ret = "Modified"
    /\ (component = "player" /\ player.loop_playback)
          => /\ ~playback_state.completed
             /\ playback_dones = 0
             /\ last.op = "poll" => last.ret = "Modified"

\* C5's case: a looping banner polled two cycles or more after its start
C5_witness ==
    \E i \in Entries :
        /\ animations[i].loop_animation
        /\ last.op = "poll" /\ last.entry = i
        /\ anim_state[i].start_time # {}
        /\ ElapsedOf(i) >= 2 * animations[i].duration

\* C6: the hue offset a looping banner's poll stores at elapsed time e is the
\* one a poll stores at e mod cycle, and at e + k * cycle for every k.
C6_looping_phase_is_periodic ==
    \A i \in Entries :
        (/\ animations[i].loop_animation
         /\ last.op = "poll" /\ last.entry = i
         /\ anim_state[i].start_time # {})
        => LET e == ElapsedOf(i)
               cycle == animations[i].duration
           IN  /\ anim_state[i].hue_offset = hue_at(e % cycle, cycle, TRUE)
               /\ \A k \in 0..MaxTime :
                     hue_at(e + k * cycle, cycle, TRUE) = anim_state[i].hue_offset

\* C6's case: a looping banner polled in its second cycle or later, at a
\* phase other than the cycle's start
C6_witness ==
    \E i \in Entries :
        /\ animations[i].loop_animation
        /\ last.op = "poll" /\ last.entry = i
        /\ anim_state[i].start_time # {}
        /\ ElapsedOf(i) > animations[i].duration
        /\ anim_state[i].hue_offset > 0

\* this step is the navigation call `op`
NavStep(op) == last'.op = op

\* C7: mutate_previous at index 0 and mutate_next at index total - 1 return
\* false and leave the index; anywhere else they return true and move the
\* index by one; apply_all_mutations sets it to total - 1 and reset_mutations
\* to 0.
C7_navigation_results ==
    [][/\ NavStep("mutate_previous")
            => IF context.current = 0
                   THEN last'.ret = "false" /\ context'.current = 0
                   ELSE /\ last'.ret = "true"
                        /\ context'.current = context.current - 1
       /\ NavStep("mutate_next")
            => IF context.current = context.total - 1
                   THEN /\ last'.ret = "false"
                        /\ context'.current = context.current
                   ELSE /\ last'.ret = "true"
                        /\ context'.current = context.current + 1
       /\ NavStep("apply_all_mutations")
            => context'.current = context.total - 1
       /\ NavStep("reset_mutations")
            => context'.current = 0
       /\ context'.total = context.total]_vars

\* C7's case: mutate_next refused at the last of two or more entries
C7_witness ==
    /\ component = "multi_banner"
    /\ context.total >= 2
    /\ context.current = context.total - 1
    /\ last.op = "mutate_next" /\ last.ret = "false"

\* C8: the index stays in [0, total) whatever is called, and mutate_next never
\* lowers it nor mutate_previous raises it (no wrap-around).
C8_index_in_range ==
    /\ [](component = "multi_banner"
            => (context.current >= 0 /\ context.current < context.total))
    /\ [][/\ NavStep("mutate_next") => context'.current >= context.current
          /\ NavStep("mutate_previous") => context'.current <= context.current]_vars

\* C8's case: mutate_previous refused at index 0 after another entry was
\* selected and polled
C8_witness ==
    /\ component = "multi_banner"
    /\ context.current = 0
    /\ last.op = "mutate_previous" /\ last.ret = "false"
    /\ \E i \in Entries : i > 0 /\ anim_state[i].start_time # {}

C10_unselected_clock_is_paused ==
    \A i \in Entries :
        (/\ last.op = "poll" /\ last.entry = i
         /\ anim_state[i].start_time # {})
        => /\ last.ret = "Done"
                => selected_ms[i] >= animations[i].duration
           /\ last.ret = "Modified"
                => anim_state[i].hue_offset =
                       hue_at(selected_ms[i], animations[i].duration,
                              animations[i].loop_animation)

(* ---------------------- claims on cast parsing ------------------------ *)

\* what from_cast returned
Returned == unwrap(recording)

\* from_cast has returned an error
Failed == recording # {} /\ ~Returned.ok

\* the result holds an error and no recording
NoRecording(result) == ~result.ok /\ "value" \notin DOMAIN result

\* the file's first line deserializes as a header whose version is not 2
WrongVersion ==
    /\ content # <<>>
    /\ parse_header(content[1]).ok
    /\ parse_header(content[1]).value.version # SupportedVersion

\* line i of the file is an event line of type "o"
IsOutputLine(i) == content[i].json = "array" /\ content[i].event_type = "o"

\* the numbers of the file's lines after the first that are events of type "o"
OutputLines == {i \in 2..Len(content) : IsOutputLine(i)}

\* the CastEvent that line i of the file holds
EventOf(i) ==
    [time |-> content[i].time,
     event_type |-> content[i].event_type,
     data |-> content[i].data]

\* the members of a set of line numbers, in increasing order
RECURSIVE InFileOrder(_)
InFileOrder(numbers) ==
    IF numbers = {}
        THEN <<>>
        ELSE LET least == CHOOSE i \in numbers : \A j \in numbers : i <= j
             IN  <<least>> \o InFileOrder(numbers \ {least})

OffendingLine ==
    IF content = <<>> \/ ~parse_header(content[1]).ok \/ WrongVersion
        THEN 1
        ELSE CHOOSE i \in 2..Len(content) :
                 /\ ~is_blank(content[i]) /\ ~parse_event(content[i]).ok
                 /\ \A j \in 2..(i - 1) :
                        is_blank(content[j]) \/ parse_event(content[j]).ok

\* the line numbers an error's message displays: the one formatted into
\* "line {}: ..." and the one serde_json appends to its own message
LinesNamed(error) ==
    (IF error.message.format = "line {}: {}" THEN error.message.number ELSE {})
        \cup {cause.line : cause \in error.message.cause}

\* C12: every error from_cast returns carries the 1-based number of the
\* offending line of the file, and comes with no recording.
C12_every_failure_names_its_line ==
    Failed =>
        /\ NoRecording(Returned)
        /\ OffendingLine \in LinesNamed(Returned.error)

\* C13: after a successful from_cast the retained events are exactly the
\* event lines of type "o", in file order: other types are dropped, blank
\* lines skipped, and nothing is sorted by timestamp.
C13_retained_events_in_file_order ==
    IsParsed =>
        LET kept == InFileOrder(OutputLines)
        IN  Parsed.events = [k \in 1..Len(kept) |-> EventOf(kept[k])]

\* a file with a line that is dropped or skipped between or around two
\* output events whose timestamps decrease
C13_witness ==
    /\ IsParsed
    /\ Len(content) = 4
    /\ Len(Parsed.events) = 2
    /\ Parsed.events[1].time > Parsed.events[2].time

\* the timestamp of the last event line of type "o", 0 when there is none
LastOutputTime ==
    IF OutputLines = {}
        THEN 0
        ELSE content[CHOOSE i \in OutputLines : \A j \in OutputLines : j <= i].time

\* C14: duration() returns the timestamp of the last event of type "o" in
\* file order, and 0 when the file has none; later events of other types do
\* not change it.
C14_duration_is_last_output_time ==
    query.op = "duration" => query.time = LastOutputTime

\* duration() was called on a recording whose file ends with an input
\* event later than its last output event
C14_witness ==
    /\ query.op = "duration"
    /\ OutputLines # {}
    /\ ~IsOutputLine(Len(content))
    /\ content[Len(content)].json = "array"
    /\ content[Len(content)].time > query.time

\* the concatenation of a sequence of Strings
RECURSIVE Flatten(_)
Flatten(strings) ==
    IF strings = <<>> THEN <<>> ELSE Head(strings) \o Flatten(Tail(strings))

\* the payloads of the retained events not later than t, in file order
PayloadsUpTo(t) ==
    LET due == SelectSeq(Parsed.events, LAMBDA e : e.time <= t)
    IN  Flatten([k \in 1..Len(due) |-> due[k].data])

\* how many retained events come before the first one later than t
LeadingUpTo(t) ==
    CHOOSE n \in 0..Len(Parsed.events) :
        /\ \A k \in 1..n : Parsed.events[k].time <= t
        /\ n < Len(Parsed.events) => Parsed.events[n + 1].time > t

\* the retained events' timestamps never decrease
Monotonic ==
    \A k \in 1..(Len(Parsed.events) - 1) :
        Parsed.events[k].time <= Parsed.events[k + 1].time

C16_replay_is_faithful_for_text ==
    (/\ query.op = "render_frame"
     /\ Monotonic
     /\ \A k \in 1..Len(Parsed.events) :
            \A i \in 1..Len(Parsed.events[k].data) :
                Parsed.events[k].data[i] \notin ControlBytes
     /\ Len(PayloadsUpTo(query.timestamp)) <= Parsed.width)
        => /\ screen.lines[1] = PayloadsUpTo(query.timestamp)
           /\ \A r \in 2..Parsed.height : screen.lines[r] = <<>>

(* ------------------ claims on the terminal emulator ------------------- *)

\* this step is the parser's call `op` on the screen
PerformStep(op) == component = "terminal" /\ query'.op = op

\* the row `line` once c stands in cell col: the cells before col that the
\* row lacked hold a space, every other cell is as it was
PrintedRow(line, col, c) ==
    [i \in 1..Max(Len(line), col + 1) |->
        IF i = col + 1 THEN c
        ELSE IF i <= Len(line) THEN line[i]
        ELSE " "]

\* C17: in every state the emulator reaches from an empty screen of width
\* and height 1 or more, the cursor's row is in 0..height-1 and its column
\* in 0..width-1, the buffer holds height lines, and no line holds more than
\* width chars.
C17_cursor_and_lines_in_bounds ==
    /\ screen.cursor[1] \in 0..(screen.height - 1)
    /\ screen.cursor[2] \in 0..(screen.width - 1)
    /\ Len(screen.lines) = screen.height
    /\ \A r \in 1..Len(screen.lines) : Len(screen.lines[r]) <= screen.width

\* a char was printed in the last cell of the last row of a screen of more
\* than one row and column
C17_witness ==
    /\ query.op = "print"
    /\ screen.width > 1
    /\ screen.height > 1
    /\ screen.cursor = <<screen.height - 1, screen.width - 1>>
    /\ Len(screen.lines[screen.height]) = screen.width

\* C18: printing c with the cursor at (r, col) puts c in cell (r, col),
\* pads row r with spaces up to col if it was shorter, leaves every other
\* cell and row as it was, and moves the cursor to (r, min(col+1, width-1)),
\* whatever the byte length of c and of the chars the row holds.
C18_print_places_the_char ==
    [][PerformStep("print") =>
           LET r == screen.cursor[1]
               col == screen.cursor[2]
               c == query'.string[1]
           IN  /\ screen'.lines =
                      [screen.lines EXCEPT ![r + 1] = PrintedRow(@, col, c)]
               /\ screen'.cursor = <<r, Min(col + 1, screen.width - 1)>>
               /\ screen'.width = screen.width
               /\ screen'.height = screen.height]_vars

\* C19: a line feed changes only the cursor's row, to min(row+1, height-1);
\* a carriage return changes only the cursor's column, to 0; a backspace
\* changes only the cursor's column, to max(column-1, 0); none of them
\* changes a cell.
C19_line_feed_carriage_return_backspace ==
    [][PerformStep("execute") =>
           LET row == screen.cursor[1]
               col == screen.cursor[2]
               byte == query'.string[1]
               cursor == IF byte = "LF" THEN <<Min(row + 1, screen.height - 1), col>>
                         ELSE IF byte = "CR" THEN <<row, 0>>
                         ELSE <<row, Max(col - 1, 0)>>
           IN  byte \in {"LF", "CR", "BS"} =>
                   /\ screen'.cursor = cursor
                   /\ screen'.lines = screen.lines
                   /\ screen'.width = screen.width
                   /\ screen'.height = screen.height]_vars

\* a line feed was executed on a screen of one row, with the cursor past
\* column 0 of a row that holds chars
C19_witness ==
    /\ component = "terminal"
    /\ query.op = "execute"
    /\ query.string = <<"LF">>
    /\ screen.height = 1
    /\ screen.cursor[2] > 0
    /\ screen.lines[1] # <<>>

\* C20: every control event other than line feed, carriage return and
\* backspace (another C0 byte, a CSI, ESC or OSC sequence, a device control
\* string) leaves the screen's cells and the cursor as they were.
C20_other_controls_change_nothing ==
    [][(\/ \E op \in {"csi_dispatch", "esc_dispatch", "osc_dispatch",
                      "hook", "put", "unhook"} : PerformStep(op)
        \/ /\ PerformStep("execute")
           /\ query'.string[1] \notin {"LF", "CR", "BS"})
           => screen' = screen]_vars

\* a horizontal tab was executed with the cursor past column 0 of a row
\* that holds chars
C20_witness ==
    /\ component = "terminal"
    /\ query.op = "execute"
    /\ query.string = <<"HT">>
    /\ screen.cursor[2] > 0
    /\ screen.lines[1] # <<>>

(* ------------------------- claims: the fonts -------------------------- *)

\* BannerGenerator::new was called, and this is the name it was given
FontRequested == font.call.loaded # {}

\* the keys of VALID_FONT_PATHS, once it is built
WhitelistKeys == IF font.map = {} THEN {} ELSE DOMAIN unwrap(font.map)

\* the lowercased stems of the files in the font directories
StemsOnDisk == {to_lowercase(f.stem) : f \in font.files}

Committed ==
    IF threads.committed # {}
        THEN unwrap(threads.committed)
        ELSE IF component = "banner" THEN AnimationState_new ELSE PlaybackState_new

\* this step is the renderer's read of the run state
RenderReads == threads.render = "locked" /\ threads'.render = "idle"

\* C23: however the steps of poll and of as_render_operations on one banner
\* or one player interleave, the two are never inside the mutex together; the
\* renderer reads the run state as initialised or as one completed poll left
\* it, draws the frame of that state and leaves the state as it is; and the
\* run state changes in no step but an assignment of poll.
C23_render_reads_a_committed_state ==
    /\ [](Cardinality(threads.mutex) <= 1)
    /\ [][/\ RenderReads
              => /\ RunState = Committed
                 /\ RunState' = RunState
                 /\ last'.frame =
                        IF component = "banner"
                            THEN render_with_offset(0, Committed.hue_offset)
                            ELSE render_frame(Committed.current_time)
          /\ RunState' # RunState
              => /\ threads.mutex = {"poll"}
                 /\ Len(unwrap(threads'.poll).writes)
                        < Len(unwrap(threads.poll).writes)]_vars

\* C23's case: a render has drawn a looping playback, and the poll that
\* restarts the playback now holds the mutex between its two assignments, the
\* start_time reset and the current_time still the old one
C23_witness ==
    /\ component = "player"
    /\ player.loop_playback
    /\ last.op = "render"
    /\ threads.mutex = {"poll"}
    /\ threads.committed # {}
    /\ playback_state.start_time = {now}
    /\ playback_state.start_time # Committed.start_time
    /\ playback_state.current_time > 0
    /\ playback_state.current_time = Committed.current_time
    /\ last.frame = render_frame(Committed.current_time)
    /\ unwrap(threads.poll).writes = <<[field |-> "current_time", value |-> 0]>>

(* ------------------------- claims: the styles ------------------------- *)

\* a cell has been rendered
CellRendered == rendered.calls > 0

\* the f32 values hsl_to_rgb was given to make the colours of a result
HslCalls(result) ==
    ({result.color.hsl} \cup {b.hsl : b \in result.bg_color}) \ {<<>>}

\* min(floor(clamp(phase / 320, 0, 1) * total_chars), total_chars), in exact
\* integer arithmetic
RevealCount(phase, total_chars) ==
    Min((Min(Max(phase, 0), 320) * total_chars) \div 320, total_chars)

\* the chars of the frame of ctx that Typewriter draws as the caret
Carets(ctx) ==
    {j \in 0..(ctx.total_chars - 1) :
        Typewriter_render_char([ctx EXCEPT !.char_index = j]).replacement_char
            = {Caret}}

C25_kaleidoscope_background_phases ==
    (/\ CellRendered
     /\ cell.style = "Kaleidoscope")
        => /\ cell.ctx.hue_offset < 320 => cell.result.bg_color # {}
           /\ cell.ctx.hue_offset > 360 => cell.result.bg_color = {}

\* C25's case: a whitespace cell in mid-animation is given a background
\* where both waves are at their lowest
C25_witness ==
    /\ CellRendered
    /\ cell.style = "Kaleidoscope"
    /\ cell.ctx.ch \in Whitespace
    /\ cell.ctx.hue_offset = 160
    /\ cell.ctx.sin[1] < 0 /\ cell.ctx.sin[2] < 0
    /\ cell.result.bg_color # {}

\* C26: at every phase in [0, 360] and for every value of the sines and of
\* the fractional parts, every style gives hsl_to_rgb a hue in [0, 360) and
\* a saturation and a lightness in [0, 100].
C26_hsl_arguments_in_range ==
    (/\ CellRendered
     /\ cell.ctx.hue_offset >= 0 /\ cell.ctx.hue_offset <= 360)
        => \A c \in HslCalls(cell.result) :
               /\ c[1] >= 0 /\ c[1] < 360 * Scale
               /\ c[2] >= 0 /\ c[2] <= 100 * Scale
               /\ c[3] >= 0 /\ c[3] <= 100 * Scale

C28_orchestrator_done_is_terminal ==
    [][(/\ component = "multi_banner"
        /\ last'.op = "poll"
        /\ \E i \in Entries : dones[i] >= 1)
       => last'.ret = "Unmodified"]_vars

\* the Typewriter cells of the frame render_with_offset draws at hue_offset
TypewriterFrame(hue_offset) ==
    {Typewriter_render_char(
         Context(hue_offset, char, row, col, "#",
                 [k \in 1..4 |-> 0], [k \in 1..3 |-> 0], {})) :
        char \in Chars, row \in Rows, col \in Columns}

\* C29: once the poll of a Typewriter banner that does not loop has returned
\* Done, every frame rendered is the settled one, however the polls were
\* spaced: every non-whitespace char is ink with its own glyph, none is the
\* caret or a blank.
C29_typewriter_settles_after_done ==
    \A i \in Entries :
        (/\ component = "banner"
         /\ ~animations[i].loop_animation
         /\ dones[i] >= 1
         /\ last.op = "render" /\ last.entry = i)
            => TypewriterFrame(last.frame[2]) = {with_color(hsl(40, 20, 85))}

\* the playback time `elapsed * speed` counted from the first poll, under
\* LoopSpec, whose clock starts with the first poll
ScaledSinceFirstPoll == playback_time_at(now, player.speed)

\* C30: for a looping playback of a recording with a positive duration, the
\* current time a poll stores is the scaled time elapsed since the first
\* poll, modulo duration(), however the polls are spaced.
C30_looping_playback_keeps_the_period ==
    [][(/\ PlayerPoll
        /\ player.loop_playback
        /\ PlaybackDuration > 0)
       => playback_state'.current_time =
              ScaledSinceFirstPoll % PlaybackDuration]_vars

(* --------------------- claims: pollables that share -------------------- *)

\* how many polls of the banner or the player have returned Done
TotalDones == IF component = "banner" THEN dones[0] ELSE playback_dones

\* the configuration does not loop
RunsOnce ==
    IF component = "banner" THEN ~animations[0].loop_animation
                            ELSE ~player.loop_playback

\* this step is the return of a poll of one of the two pollables
PollReturns == \E p \in {"poll", "second"} : threads[p] # {} /\ threads'[p] = {}

\* C34: two pollables made by two calls of pollable() on one banner or one
\* player share the run state and its mutex; however their polls interleave,
\* at most one poll of the two returns Done, a poll that finds the end of a
\* non-looping run returns when Done has been returned exactly once in
\* total, and the completed flag is set only by the poll that returns Done.
C34_shared_pollables_report_done_once ==
    /\ [](/\ TotalDones <= 1
          /\ Cardinality(threads.done_by) = TotalDones
          /\ Cardinality(threads.mutex) <= 1
          /\ RunState.completed /\ threads.mutex = {} => TotalDones = 1
          /\ RunState.completed /\ threads.mutex # {} /\ TotalDones = 0
                 => \E p \in threads.mutex : unwrap(threads[p]).ret = "Done")
    /\ [][PollReturns /\ last'.ret \in {"Done", "Unmodified"}
              => RunsOnce /\ RunState.completed /\ TotalDones' = 1]_vars

\* C34's case: the first pollable has returned Done; the second then polled
\* at or past the end and is inside the mutex, about to return Unmodified
C34_witness ==
    /\ RunsOnce
    /\ threads.done_by = {"poll"}
    /\ threads.mutex = {"second"}
    /\ unwrap(threads.second).ret = "Unmodified"
    /\ TotalDones = 1
    /\ RunState.completed

(* ------------------------ claims: the lock order ---------------------- *)

\* thread t is at a lock that another thread holds a guard of
Blocked(t) ==
    \/ /\ threads.calls[t].pc = "called"
       /\ holders(threads.guards, ContextMutex) # {}
    \/ /\ threads.calls[t].pc = "copied"
       /\ TargetOf(t) \in Entries
       /\ holders(threads.guards, EntryMutex(TargetOf(t))) # {}

\* the lock thread t is at, if it is at one
Awaited(t) ==
    IF threads.calls[t].pc = "called" THEN {ContextMutex}
    ELSE IF threads.calls[t].pc = "copied" /\ TargetOf(t) \in Entries
        THEN {EntryMutex(TargetOf(t))}
        ELSE {}

\* the navigation call in progress leaves an index the model does not follow
BeyondReach(t) ==
    /\ t = "navigate"
    /\ threads.calls[t].pc = "locked"
    /\ \A r \in NavigationResults(threads.calls[t].op) : ~InReach(r.current)

\* C35: in the orchestrator no thread takes or waits for the lock of an
\* entry's run state while it holds the lock of the shared index: poll and
\* render copy the index and drop that lock first, and a navigation call
\* holds the index lock alone.  A thread that holds a lock is therefore
\* never waiting for one, each lock has at most one holder, every thread
\* that is not waiting can take its next step, and the lock a waiting
\* thread is at is held by a thread that is not waiting: no interleaving of
\* poll, render and navigation ends in a deadlock.
C35_index_lock_is_never_held_across_an_entry_lock ==
    \A t \in Callers :
        /\ ContextMutex \in held(threads.guards, t)
               => /\ held(threads.guards, t) = {ContextMutex}
                  /\ threads.calls[t].pc = "locked"
        /\ Cardinality(held(threads.guards, t)) <= 1
        /\ held(threads.guards, "navigate") \subseteq {ContextMutex}
        /\ threads.calls[t].pc = "copied" => held(threads.guards, t) = {}
        /\ threads.calls[t].pc = "entry"
               => held(threads.guards, t) = {EntryMutex(TargetOf(t))}
        /\ \A u \in Callers \ {t} :
               held(threads.guards, t) \cap held(threads.guards, u) = {}
        /\ Blocked(t) => held(threads.guards, t) = {}
        /\ ~Blocked(t) => BeyondReach(t) \/ ENABLED OrderStep(t)
        /\ Blocked(t) =>
               \E u \in Callers \ {t} :
                   /\ Awaited(t) \subseteq held(threads.guards, u)
                   /\ ~Blocked(u)
                   /\ BeyondReach(u) \/ ENABLED OrderStep(u)

\* C35's case: poll has copied the index and waits for the entry's lock,
\* which render holds, while a navigation call holds the index lock
C35_witness ==
    /\ component = "multi_banner"
    /\ threads.calls["poll"].pc = "copied"
    /\ Blocked("poll")
    /\ threads.guards = {<<"render", EntryMutex(TargetOf("poll"))>>,
                         <<"navigate", ContextMutex>>}
    /\ threads.calls["navigate"].op = "mutate_next"

(* ------------------------- claims: the frame -------------------------- *)

\* the positions <<row, column>> of the non-whitespace chars of `lines`
GlyphCells(lines) ==
    UNION {{<<r, k>> : k \in {j \in 1..Len(lines[r]) : lines[r][j] \notin Whitespace}} :
               r \in 1..Len(lines)}

\* how many of the first n contexts built are of non-whitespace cells
GlyphsAmong(contexts, n) ==
    Cardinality({j \in 1..n : contexts[j].ch \notin Whitespace})

\* C31: in one frame of a banner total_chars is the number of non-whitespace
\* chars of all rows; the cells are visited row by row and column by column;
\* the char_index a cell's context gets is the number of non-whitespace
\* cells before it, so the non-whitespace cells get 0, 1, ..., total_chars-1,
\* each below total_chars, a whitespace cell does not advance the index, and
\* the index is total_chars after the last cell; the operations returned are
\* one block line followed by one line break for each row.
C31_frame_indices_and_operations ==
    LET f == rendered.frame
    IN  f.pc \in {"loop", "returned"} =>
            /\ f.total_chars = Cardinality(GlyphCells(f.lines))
            /\ \A k \in 1..Len(f.contexts) :
                   LET ctx == f.contexts[k]
                   IN  /\ ctx.ch = f.lines[ctx.row_index + 1][ctx.col_index + 1]
                       /\ ctx.total_chars = f.total_chars
                       /\ ctx.char_index = GlyphsAmong(f.contexts, k - 1)
                       /\ ctx.ch \notin Whitespace => ctx.char_index < ctx.total_chars
                       /\ \A j \in 1..(k - 1) :
                              \/ f.contexts[j].row_index < ctx.row_index
                              \/ /\ f.contexts[j].row_index = ctx.row_index
                                 /\ f.contexts[j].col_index < ctx.col_index
            /\ f.char_index = GlyphsAmong(f.contexts, Len(f.contexts))
            /\ Len(f.operations) = 2 * f.row_index
            /\ \A r \in 1..f.row_index :
                   /\ f.operations[2 * r - 1].op = "RenderBlockLine"
                   /\ Len(f.operations[2 * r - 1].text) = Len(f.lines[r])
                   /\ f.operations[2 * r] = RenderLineBreak
            /\ f.pc = "returned" =>
                   /\ f.row_index = Len(f.lines)
                   /\ f.char_index = f.total_chars
                   /\ {<<ctx.row_index + 1, ctx.col_index + 1>> :
                           ctx \in {f.contexts[k] : k \in 1..Len(f.contexts)}}
                          = {<<r, k>> : r \in 1..Len(f.lines), k \in 1..MaxCols}
                                \cap {p \in (1..Len(f.lines)) \X (1..MaxCols) :
                                          p[2] <= Len(f.lines[p[1]])}
                   /\ {f.contexts[k].char_index :
                           k \in {j \in 1..Len(f.contexts) :
                                      f.contexts[j].ch \notin Whitespace}}
                          = 0..(f.total_chars - 1)
                   /\ last = Call("render", 0, "ops", f.operations)

\* C31's case: a frame of two rows was returned, with a space before a
\* glyph in a row and glyphs in both rows
C31_witness ==
    LET f == rendered.frame
    IN  /\ f.pc = "returned"
        /\ Len(f.lines) = 2
        /\ f.total_chars >= 2
        /\ \E r \in 1..2 : Len(f.lines[r]) = 2 /\ f.lines[r][1] = " " /\ f.lines[r][2] = "#"
        /\ \A r \in 1..2 : \E k \in 1..Len(f.lines[r]) : f.lines[r][k] = "#"
        /\ Len(f.operations) = 4

(* ------------- claims: floors, phases and termination ----------------- *)

\* C32: whatever duration_millis a banner is configured with, 0 included,
\* its cycle is at least 1 ms, and whatever speed a player is configured
\* with, 0 and negative speeds included, its speed is at least 0.1; so every
\* poll that takes `elapsed % cycle` or `elapsed / cycle` divides by a cycle
\* that is not zero, and every poll scales the elapsed time by a positive
\* speed.
C32_cycle_and_speed_have_floors ==
    /\ \A l \in BOOLEAN, d \in DurationMillis \cup MultiDurationMillis :
           RainbowBannerAnimation_new(l, d).duration >= 1
    /\ \A e \in Recordings, l \in BOOLEAN, s \in SpeedInputs :
           AsciinemaPlayer_new(e, l, s).speed >= 1
    /\ \A i \in Entries : animations[i].duration >= 1
    /\ player.speed >= 1
    /\ (component = "player" /\ playback_state.start_time # {})
           => (now > unwrap(playback_state.start_time) => PlaybackTime > 0)

\* C32's case: a looping banner configured with duration_millis 0 was polled
\* after its first poll, and the poll took the modulus and the quotient by
\* the cycle of 1 ms
C32_witness ==
    /\ component = "banner"
    /\ 0 \in DurationMillis
    /\ animations[0] = RainbowBannerAnimation_new(TRUE, 0)
    /\ anim_state[0].start_time # {}
    /\ ElapsedOf(0) > 0
    /\ last.op = "poll"
    /\ last.ret = "Modified"
    /\ anim_state[0].hue_offset = hue_at(ElapsedOf(0), 1, TRUE)

NonLooping ==
    \/ component = "banner" /\ ~animations[0].loop_animation
    \/ component = "player" /\ ~player.loop_playback

\* a poll of the banner or of the player has returned Done
ReturnedDone ==
    \/ component = "banner" /\ dones[0] >= 1
    \/ component = "player" /\ playback_dones >= 1

\* C36: a banner or a player that does not loop, polled again and again
\* while the clock advances, returns Done from some poll, whatever its cycle,
\* the duration of its recording and its speed.
C36_polling_ends_in_done == NonLooping ~> ReturnedDone

\* C36's case: the slowest player of the longest recording has returned Done
C36_witness ==
    /\ component = "player"
    /\ ~player.loop_playback
    /\ player.speed = MinSpeedTenths
    /\ \A e \in Recordings : PlaybackDuration >= duration(e)
    /\ playback_dones = 1
    /\ last.op = "poll"
    /\ last.ret = "Done"

(* ------------------- claims: frames of a recording -------------------- *)

\* String s is a prefix of String t
IsPrefix(s, t) == Len(s) <= Len(t) /\ SubSeq(t, 1, Len(s)) = s

\* get_frame_at(t) of the recording from_cast returned
FrameAt(t) == get_frame_at(Parsed.events, t)

\* C37: for timestamps t1 <= t2 the String get_frame_at(t1) returns is a
\* prefix of the String get_frame_at(t2) returns, for every list of retained
\* events, those whose timestamps decrease somewhere included.
C37_earlier_frame_is_prefix_of_later ==
    query.op = "get_frame_at" =>
        /\ query.string = FrameAt(query.timestamp)
        /\ \A t \in Timestamps :
               /\ t <= query.timestamp => IsPrefix(FrameAt(t), query.string)
               /\ t >= query.timestamp => IsPrefix(query.string, FrameAt(t))

\* C37's case: get_frame_at was called on a recording whose timestamps
\* decrease, and an earlier timestamp gives a shorter frame
C37_witness ==
    /\ query.op = "get_frame_at"
    /\ ~Monotonic
    /\ query.string # <<>>
    /\ \E t \in Timestamps :
           /\ t < query.timestamp
           /\ Len(FrameAt(t)) < Len(query.string)

(* ----------------- claims: the orchestrator's edges ------------------- *)

\* C38: on an orchestrator whose total is 0, mutate_next returns false and
\* leaves the index at 0, and apply_all_mutations leaves the index at 0;
\* neither takes `total - 1` below zero.
C38_empty_orchestrator_stays_at_zero ==
    [][(context.total = 0 /\ context.current = 0 /\ ~context.poisoned)
           => /\ NavStep("mutate_next")
                  => last'.ret = "false" /\ context'.current = 0
              /\ NavStep("apply_all_mutations")
                  => last'.ret = "unit" /\ context'.current = 0]_vars

(* ---------------- claims: screens without columns or rows ------------- *)

\* C39: a cast whose header declares width 0 or height 0 makes no
\* subtraction of the replay go below zero: from_cast rejects the file, or
\* render_frame replays the events to their end with `width - 1` (print) and
\* `height - 1` (line feed) never taken of 0.
C39_zero_sized_screen_never_underflows ==
    (/\ content # <<>>
     /\ parse_header(content[1]).ok
     /\ \/ parse_header(content[1]).value.width = {0}
        \/ parse_header(content[1]).value.height = {0}
     /\ recording # {})
        => \/ Failed
           \/ query.op = "render_frame" => screen.overflow = "none"

====
